---- MODULE Spec2Model ----
(***************************************************************************)
(* A model of printable-shell-command (src/src/PrintableShellCommand.ts).  *)
(*                                                                         *)
(* A JavaScript string is a sequence of one-character strings.  A          *)
(* JavaScript value is a record [t, s, items]: t is its runtime type, s    *)
(* the characters of a string or of a Path's path, items the elements of   *)
(* an array.  An optional field is <<>> when absent (undefined) and <<v>>  *)
(* when it has the value v.                                                *)
(***************************************************************************)
EXTENDS Integers, Sequences, FiniteSets, TLC

VARIABLES
    phase,        \* "new" | "constructed" | "threw" | "called" | "escape" | "escaped"
    commandName,  \* the object's #commandName field
    args,         \* the object's args field
    call,         \* the last call: its operation and its inputs
    result,       \* what the last call returned or threw
    stdinSource,  \* the object's #stdinSource field
    callerOptions,\* the caller's options object, as it is after the last call
    written,      \* the chunks written to each stream, in order
    children,     \* the calls of node:child_process spawn, in order
    argsShared,   \* whether the args field is the array the caller passed and holds
    history,      \* what the calling program remembers of its earlier calls
    subprocess,   \* the child process of a spawn: its output and its notifications
    promises,     \* the promises that reads of .success have returned, in order
    body          \* the generator behind stdout(), text(), ... and what it delivered

\* What the calls on a command use besides the command
useVars == <<stdinSource, callerOptions, written, children>>

\* The calling program's hold on the args array, and its memory
programVars == <<argsShared, history>>

\* A spawned process and what waits for it
processVars == <<subprocess, promises, body>>

vars == <<phase, commandName, args, call, result, useVars, programVars, processVars>>

----------------------------------------------------------------------------
(* JavaScript values *)

None == <<>>
Some(v) == <<v>>

Str(s) == [t |-> "string", s |-> s, items |-> <<>>]
PathValue(s) == [t |-> "Path", s |-> s, items |-> <<>>]
Arr(items) == [t |-> "array", s |-> <<>>, items |-> items]
Undefined == [t |-> "undefined", s |-> <<>>, items |-> <<>>]
Null == [t |-> "null", s |-> <<>>, items |-> <<>>]
Num == [t |-> "number", s |-> <<>>, items |-> <<>>]

\* Array.prototype.join on an array of strings
RECURSIVE join(_, _)
join(strings, sep) ==
    IF strings = <<>> THEN <<>>
    ELSE IF Len(strings) = 1 THEN strings[1]
    ELSE strings[1] \o sep \o join(Tail(strings), sep)

\* String.prototype.replaceAll for a one-character pattern
RECURSIVE replaceAll(_, _, _)
replaceAll(s, ch, replacement) ==
    IF s = <<>> THEN <<>>
    ELSE (IF Head(s) = ch THEN replacement ELSE <<Head(s)>>)
         \o replaceAll(Tail(s), ch, replacement)

----------------------------------------------------------------------------
(* Constants of PrintableShellCommand.ts *)

DEFAULT_MAIN_INDENTATION == <<>>
DEFAULT_ARG_INDENTATION == <<" ", " ">>
DEFAULT_ARGUMENT_LINE_WRAPPING == "by-entry"

INLINE_SEPARATOR == <<" ">>
LINE_WRAP_LINE_END == <<" ", "\\", "\n">>

ARGUMENT_LINE_WRAPPING_VALUES == {"by-entry", "nested-by-entry", "by-argument", "inline"}

\* The character U+0060 (grave accent), which a TLA+ string cannot hold
GraveAccent == "U+0060"

\* The characters without the number sign
SPECIAL_SHELL_CHARACTERS_WithoutNumberSign ==
    {" ", "\"", "'", GraveAccent, "|", "$", "*", "?", ">", "<",
     "(", ")", "[", "]", "{", "}", "&", "\\", ";"}

SPECIAL_SHELL_CHARACTERS ==
    {" ", "\"", "'", GraveAccent, "|", "$", "*", "?", ">", "<",
     "(", ")", "[", "]", "{", "}", "&", "\\", ";", "#"}

SPECIAL_SHELL_CHARACTERS_FOR_MAIN_COMMAND == SPECIAL_SHELL_CHARACTERS \cup {"="}

TTY_AUTO_STYLE == <<"gray", "bold">>

\* PrintOptions and StreamPrintOptions: every field optional
NoOptions ==
    [mainIndentation |-> None, argIndentation |-> None, quoting |-> None,
     argumentLineWrapping |-> None, skipLineWrapBeforeFirstArg |-> None,
     style |-> None, autoStyle |-> None, stream |-> None]

\* The options of spawn and of the methods that spawn: every field optional
NoSpawnOptions == [stdio |-> None, cwd |-> None, detached |-> None, print |-> None]

\* No stream has been written to
NothingWritten == [stream \in {"stderr", "stdout", "file"} |-> <<>>]

----------------------------------------------------------------------------
(* escapeArg *)

\* new Set(arg)
CharactersOf(arg) == {arg[i] : i \in DOMAIN arg}

\* escapeArg with the command name's characters used for every token
RequiresQuoting_ForgetsIsMainCommand(arg, isMainCommand, options) ==
    \/ options.quoting = Some("extra-safe")
    \/ (CharactersOf(arg) \cap SPECIAL_SHELL_CHARACTERS_FOR_MAIN_COMMAND) # {}

RequiresQuoting(arg, isMainCommand, options) ==
    LET specialShellCharacters ==
            IF isMainCommand THEN SPECIAL_SHELL_CHARACTERS_FOR_MAIN_COMMAND
            ELSE SPECIAL_SHELL_CHARACTERS
    IN  \/ options.quoting = Some("extra-safe")
        \/ (CharactersOf(arg) \cap specialShellCharacters) # {}

\* The two replacements in the other order
Escaped_QuotesFirst(arg) ==
    replaceAll(replaceAll(arg, "'", <<"\\", "'">>), "\\", <<"\\", "\\">>)

Escaped(arg) ==
    replaceAll(replaceAll(arg, "\\", <<"\\", "\\">>), "'", <<"\\", "'">>)

escapeArg(arg, isMainCommand, options) ==
    IF RequiresQuoting(arg, isMainCommand, options)
    THEN <<"'">> \o Escaped(arg) \o <<"'">>
    ELSE arg

----------------------------------------------------------------------------
(* The standalone use of escapeArg (it is exported): one call on one token *)

MaxTokenLen == 2

\* The characters tokens are made of: every character escapeArg treats
\* specially, and three it does not
TokenCharacters ==
    {" ", "\"", "'", GraveAccent, "|", "$", "*", "?", ">", "<",
     "(", ")", "[", "]", "{", "}", "&", "\\", ";", "#", "=", "a", "\n"}

RECURSIVE StringsUpTo(_, _)
StringsUpTo(chars, n) ==
    IF n = 0 THEN {<<>>}
    ELSE LET shorter == StringsUpTo(chars, n - 1)
         IN  shorter \cup {Append(s, c) : s \in shorter, c \in chars}

EscapeTokens == StringsUpTo(TokenCharacters, MaxTokenLen)

QuotingValues == {None, Some("auto"), Some("extra-safe")}

NoCall == [op |-> "none", commandName |-> Undefined, args |-> Undefined,
           token |-> <<>>, isMainCommand |-> FALSE, options |-> NoOptions,
           spawnOptions |-> NoSpawnOptions, isTTY |-> None, source |-> <<>>,
           text |-> None, trailingNewlineOptions |-> None]
NoResult == [threw |-> FALSE, error |-> "", index |-> -1, text |-> <<>>,
             name |-> Undefined, flat |-> <<>>, this |-> FALSE]

\* The calling program has made no call
NoHistory == [steps |-> 0, modified |-> FALSE, flat |-> None, texts |-> <<>>,
              source |-> None]

\* No process, no promise, no generator
NoSubprocess == [events |-> <<>>, notified |-> <<>>, output |-> <<>>]
NoBody == [via |-> "none", promise |-> 0, pc |-> "none", consumed |-> 0,
           delivered |-> <<>>, error |-> [message |-> "", code |-> <<>>],
           pending |-> <<>>, records |-> <<>>, values |-> <<>>,
           outcome |-> "none", thrown |-> [message |-> "", code |-> <<>>]]

\* The state of what a command uses, before any call
NothingUsed ==
    /\ stdinSource = None
    /\ callerOptions = [options |-> NoOptions, spawnOptions |-> NoSpawnOptions]
    /\ written = NothingWritten
    /\ children = <<>>
    /\ argsShared = FALSE
    /\ history = NoHistory
    /\ subprocess = NoSubprocess
    /\ promises = <<>>
    /\ body = NoBody

InitEscape ==
    /\ phase = "escape"
    /\ commandName = Undefined
    /\ args = Undefined
    /\ call = NoCall
    /\ result = NoResult
    /\ NothingUsed

EscapeArgCall ==
    /\ phase = "escape"
    /\ \E token \in EscapeTokens, isMainCommand \in BOOLEAN, quoting \in QuotingValues :
          LET options == [NoOptions EXCEPT !.quoting = quoting]
          IN  /\ call' = [NoCall EXCEPT !.op = "escapeArg", !.token = token,
                                         !.isMainCommand = isMainCommand,
                                         !.options = options]
              /\ result' = [NoResult EXCEPT !.text = escapeArg(token, isMainCommand, options)]
    /\ phase' = "escaped"
    /\ UNCHANGED <<commandName, args, useVars, programVars, processVars>>

NextEscape == EscapeArgCall

SpecEscape == InitEscape /\ [][NextEscape]_vars

----------------------------------------------------------------------------
(* The class PrintableShellCommand *)

isString(v) == v.t = "string"
isPath(v) == v.t = "Path"
isArray(v) == v.t = "array"

\* path-class: a Path becomes its path string, anything else is returned as is
stringifyIfPath(v) == IF isPath(v) THEN Str(v.s) ELSE v

Coalesce(optional, default) == IF optional = None THEN default ELSE optional[1]

\* A check that wants a group of two or more members
isValidArgsEntryArray_AtLeastTwo(entries) ==
    /\ Len(entries) >= 2
    /\ \A i \in DOMAIN entries : entries[i].t \in {"string", "Path"}

\* A check that accepts every array
isValidArgsEntryArray_AcceptsAll(entries) == TRUE

isValidArgsEntryArray(entries) ==
    \A i \in DOMAIN entries : isString(entries[i]) \/ isPath(entries[i])

\* The constructor's loop from index i (0-based): the index it throws at, or -1
RECURSIVE FirstInvalidEntry(_, _)
FirstInvalidEntry(items, i) ==
    IF i >= Len(items) THEN -1
    ELSE LET argEntry == items[i + 1]
         IN  IF \/ isString(argEntry)
                \/ isPath(argEntry)
                \/ (isArray(argEntry) /\ isValidArgsEntryArray(argEntry.items))
             THEN FirstInvalidEntry(items, i + 1)
             ELSE i

\* The value of the parameter args: its default is the empty array
ArgsParameter(argsGiven) == IF argsGiven = Undefined THEN Arr(<<>>) ELSE argsGiven

\* The constructor: what it throws, if it throws
constructor(commandNameGiven, argsGiven) ==
    LET argsValue == ArgsParameter(argsGiven)
    IN  IF ~isString(commandNameGiven) /\ ~isPath(commandNameGiven)
        THEN [NoResult EXCEPT !.threw = TRUE, !.error = "Command name is not a string:"]
        ELSE IF argsValue = Undefined
        THEN NoResult
        ELSE IF ~isArray(argsValue)
        THEN [NoResult EXCEPT !.threw = TRUE, !.error = "Command arguments are not an array"]
        ELSE IF FirstInvalidEntry(argsValue.items, 0) >= 0
        THEN [NoResult EXCEPT !.threw = TRUE, !.error = "Invalid arg entry at index: ",
                              !.index = FirstInvalidEntry(argsValue.items, 0)]
        ELSE NoResult

\* A flattening that keeps only the first occurrence of a value
RECURSIVE flat_Deduplicating(_)
flat_Deduplicating(items) ==
    IF items = <<>> THEN <<>>
    ELSE LET first == IF isArray(Head(items)) THEN Head(items).items ELSE <<Head(items)>>
             rest == flat_Deduplicating(Tail(items))
         IN  first \o SelectSeq(rest, LAMBDA v : \A i \in DOMAIN first : first[i] # v)

\* Array.prototype.flat(): one level
RECURSIVE flat(_)
flat(items) ==
    IF items = <<>> THEN <<>>
    ELSE (IF isArray(Head(items)) THEN Head(items).items ELSE <<Head(items)>>)
         \o flat(Tail(items))

\* The getter commandName
commandNameGetter(name) == stringifyIfPath(name)

toCommandWithFlatArgs(name, argsValue) ==
    LET flattened == flat(argsValue.items)
    IN  [NoResult EXCEPT
            !.name = commandNameGetter(name),
            !.flat = [i \in DOMAIN flattened |-> stringifyIfPath(flattened[i])]]

mainIndentation(options) == Coalesce(options.mainIndentation, DEFAULT_MAIN_INDENTATION)

argIndentation(options) ==
    mainIndentation(options) \o Coalesce(options.argIndentation, DEFAULT_ARG_INDENTATION)

lineWrapSeparator(options) == LINE_WRAP_LINE_END \o argIndentation(options)

\* What a separator is when computing it throws
InvalidLineWrapping == <<"Invalid argument line wrapping argument.">>

LineWrapping(options) == Coalesce(options.argumentLineWrapping, DEFAULT_ARGUMENT_LINE_WRAPPING)

\* nested-by-entry without the extra level of indentation
argPairSeparator_NestedNotIndented(options) ==
    CASE LineWrapping(options) \in {"by-entry", "inline"} -> INLINE_SEPARATOR
      [] LineWrapping(options) \in {"nested-by-entry", "by-argument"} ->
            lineWrapSeparator(options)
      [] OTHER -> InvalidLineWrapping

argPairSeparator(options) ==
    CASE LineWrapping(options) = "by-entry" -> INLINE_SEPARATOR
      [] LineWrapping(options) = "nested-by-entry" ->
            lineWrapSeparator(options) \o argIndentation(options)
      [] LineWrapping(options) = "by-argument" -> lineWrapSeparator(options)
      [] LineWrapping(options) = "inline" -> INLINE_SEPARATOR
      [] OTHER -> InvalidLineWrapping

\* A separator that takes an unknown mode for the default one
intraEntrySeparator_DefaultsUnknownMode(options) ==
    IF LineWrapping(options) = "inline" THEN INLINE_SEPARATOR
    ELSE LINE_WRAP_LINE_END \o argIndentation(options)

intraEntrySeparator(options) ==
    CASE LineWrapping(options) \in {"by-entry", "nested-by-entry", "by-argument"} ->
            LINE_WRAP_LINE_END \o argIndentation(options)
      [] LineWrapping(options) = "inline" -> INLINE_SEPARATOR
      [] OTHER -> InvalidLineWrapping

\* The separator without the check for a command with no entries
separatorAfterCommand_AlsoWithoutEntries(options, numFollowingEntries) ==
    IF Coalesce(options.skipLineWrapBeforeFirstArg, FALSE) THEN INLINE_SEPARATOR
    ELSE intraEntrySeparator(options)

separatorAfterCommand(options, numFollowingEntries) ==
    IF numFollowingEntries = 0 THEN <<>>
    ELSE IF Coalesce(options.skipLineWrapBeforeFirstArg, FALSE) THEN INLINE_SEPARATOR
    ELSE intraEntrySeparator(options)

\* A loop body that serializes a group as a pair: its first two members
serializedEntry_PairOnly(entry, options) ==
    LET argsEntry == stringifyIfPath(entry)
    IN  IF isString(argsEntry)
        THEN escapeArg(argsEntry.s, FALSE, options)
        ELSE join([i \in {j \in DOMAIN argsEntry.items : j <= 2} |->
                      escapeArg(stringifyIfPath(argsEntry.items[i]).s, FALSE, options)],
                  argPairSeparator(options))

\* One iteration of getPrintableCommand's loop: the serialized entry
serializedEntry(entry, options) ==
    LET argsEntry == stringifyIfPath(entry)
    IN  IF isString(argsEntry)
        THEN escapeArg(argsEntry.s, FALSE, options)
        ELSE join([i \in DOMAIN argsEntry.items |->
                      escapeArg(stringifyIfPath(argsEntry.items[i]).s, FALSE, options)],
                  argPairSeparator(options))

\* An entry the loop cannot serialize: it raises a TypeError
EntryTypeError(entry) ==
    /\ ~isString(stringifyIfPath(entry))
    /\ \/ ~isArray(entry)
       \/ \E i \in DOMAIN entry.items : ~isString(stringifyIfPath(entry.items[i]))

\* The escape sequences of node:util styleText for a format name
StyleCodes(format) ==
    CASE format = "gray" -> [open |-> "ESC[90m", close |-> "ESC[39m"]
      [] format = "bold" -> [open |-> "ESC[1m", close |-> "ESC[22m"]
      [] format = "green" -> [open |-> "ESC[32m", close |-> "ESC[39m"]
      [] format = "underline" -> [open |-> "ESC[4m", close |-> "ESC[24m"]

\* node:util styleText(format, text) for an array of format names: the opening
\* codes in order, the text, the closing codes in reverse order
RECURSIVE styleText(_, _)
styleText(format, text) ==
    IF format = <<>> THEN text
    ELSE <<StyleCodes(Head(format)).open>>
         \o styleText(Tail(format), text)
         \o <<StyleCodes(Head(format)).close>>

\* A getPrintableCommand that styles the command name and entries, not the
\* indentation before them
getPrintableCommand_StyledAfterIndentation(name, argsValue, options) ==
    LET entries == argsValue.items
        serializedEntries == [i \in DOMAIN entries |-> serializedEntry(entries[i], options)]
        throwsInLoop ==
            \E i \in DOMAIN entries :
                isArray(entries[i]) /\ argPairSeparator(options) = InvalidLineWrapping
        text ==
            escapeArg(commandNameGetter(name).s, TRUE, options)
            \o separatorAfterCommand(options, Len(serializedEntries))
            \o join(serializedEntries, intraEntrySeparator(options))
    IN  IF \E i \in DOMAIN entries : EntryTypeError(entries[i])
        THEN [NoResult EXCEPT !.threw = TRUE, !.error = "TypeError"]
        ELSE IF throwsInLoop \/ intraEntrySeparator(options) = InvalidLineWrapping
        THEN [NoResult EXCEPT !.threw = TRUE,
                              !.error = "Invalid argument line wrapping argument."]
        ELSE [NoResult EXCEPT !.text =
                 mainIndentation(options)
                 \o (IF options.style # None THEN styleText(options.style[1], text)
                     ELSE text)]

getPrintableCommand(name, argsValue, options) ==
    LET entries == argsValue.items
        serializedEntries == [i \in DOMAIN entries |-> serializedEntry(entries[i], options)]
        throwsInLoop ==
            \E i \in DOMAIN entries :
                isArray(entries[i]) /\ argPairSeparator(options) = InvalidLineWrapping
        text ==
            mainIndentation(options)
            \o escapeArg(commandNameGetter(name).s, TRUE, options)
            \o separatorAfterCommand(options, Len(serializedEntries))
            \o join(serializedEntries, intraEntrySeparator(options))
    IN  IF \E i \in DOMAIN entries : EntryTypeError(entries[i])
        THEN [NoResult EXCEPT !.threw = TRUE, !.error = "TypeError"]
        ELSE IF throwsInLoop \/ intraEntrySeparator(options) = InvalidLineWrapping
        THEN [NoResult EXCEPT !.threw = TRUE,
                              !.error = "Invalid argument line wrapping argument."]
        ELSE [NoResult EXCEPT !.text =
                 IF options.style # None THEN styleText(options.style[1], text)
                 ELSE text]

----------------------------------------------------------------------------
(* A program that constructs one command and calls one of its methods *)

\* The most tokens a command's entries hold, an empty group counting as one
MaxArgv == 3

Scalars == {Str(<<>>), PathValue(<<"a">>)}

CommandNameInputs == {Str(<<"l", "s">>), PathValue(<<"a", "=">>), Num}

\* The entries that take k of a command's MaxArgv tokens
EntriesOfSize(k) ==
    IF k = 1
    THEN Scalars \cup {Arr(<<>>)} \cup {Arr(<<v>>) : v \in Scalars}
         \cup {Num, Arr(<<Arr(<<>>)>>)}
    ELSE {Arr(members) : members \in [1..k -> Scalars]}

RECURSIVE EntryLists(_)
EntryLists(size) ==
    {<<>>} \cup
    UNION {{<<entry>> \o rest : entry \in EntriesOfSize(k), rest \in EntryLists(size - k)} :
              k \in 1..size}

ArgsInputs == {Arr(entries) : entries \in EntryLists(MaxArgv)} \cup {Undefined, Null}

MainIndentationValues == {None, Some(<<"\t">>)}
ArgIndentationValues == {None, Some(<<>>)}
LineWrappingValues == {None} \cup {Some(w) : w \in ARGUMENT_LINE_WRAPPING_VALUES}
SkipLineWrapValues == {None, Some(TRUE), Some(FALSE)}

PrintOptionsInputs ==
    [mainIndentation : MainIndentationValues, argIndentation : ArgIndentationValues,
     quoting : QuotingValues, argumentLineWrapping : LineWrappingValues,
     skipLineWrapBeforeFirstArg : SkipLineWrapValues,
     style : {None}, autoStyle : {None}, stream : {None}]

Init ==
    /\ phase = "new"
    /\ commandName = Undefined
    /\ args = Undefined
    /\ call = NoCall
    /\ result = NoResult
    /\ NothingUsed

\* new PrintableShellCommand(commandName, args)
Construct ==
    /\ phase = "new"
    /\ \E commandNameGiven \in CommandNameInputs, argsGiven \in ArgsInputs :
          LET outcome == constructor(commandNameGiven, argsGiven)
          IN  /\ call' = [NoCall EXCEPT !.op = "constructor",
                                         !.commandName = commandNameGiven,
                                         !.args = argsGiven]
              /\ result' = outcome
              /\ IF outcome.threw
                 THEN /\ phase' = "threw"
                      /\ UNCHANGED <<commandName, args>>
                 ELSE /\ phase' = "constructed"
                      /\ commandName' = commandNameGiven
                      /\ args' = ArgsParameter(argsGiven)
    /\ UNCHANGED <<useVars, programVars, processVars>>

\* command.toCommandWithFlatArgs()
ToCommandWithFlatArgs ==
    /\ phase = "constructed"
    /\ call' = [NoCall EXCEPT !.op = "toCommandWithFlatArgs"]
    /\ result' = toCommandWithFlatArgs(commandName, args)
    /\ phase' = "called"
    /\ UNCHANGED <<commandName, args, useVars, programVars, processVars>>

\* command.getPrintableCommand(options)
GetPrintableCommand ==
    /\ phase = "constructed"
    /\ \E options \in PrintOptionsInputs :
          /\ call' = [NoCall EXCEPT !.op = "getPrintableCommand", !.options = options]
          /\ result' = getPrintableCommand(commandName, args, options)
    /\ phase' = "called"
    /\ UNCHANGED <<commandName, args, useVars, programVars, processVars>>

Next == Construct \/ ToCommandWithFlatArgs \/ GetPrintableCommand

Spec == Init /\ [][Next]_vars

----------------------------------------------------------------------------
(* print, stdin and the methods that spawn *)

\* An object a method holds: its fields, and whether it is the very object
\* the caller passed.  The method that would not copy:
Spread_SameObject(object) == [callers |-> TRUE, fields |-> object]

\* { ...object }: a new object with the fields of object
Spread(object) == [callers |-> FALSE, fields |-> object]

\* The caller's object once a method has assigned to the object it holds
CallersObject(given, held) == IF held.callers THEN held.fields ELSE given

\* An auto style that ignores autoStyle
autoStyle_IgnoresNever(options, isTTY) ==
    IF isTTY = Some(TRUE) THEN Some(TTY_AUTO_STYLE) ELSE None

\* The right-hand side of print's optionsCopy.style ??= ...
autoStyle(options, isTTY) ==
    IF options.autoStyle # Some("never") /\ isTTY = Some(TRUE)
    THEN Some(TTY_AUTO_STYLE)
    ELSE None

\* print(options), the target stream's isTTY being isTTY: the result, the
\* streams and the caller's object after it
print(name, argsValue, options, isTTY, writtenBefore) ==
    LET stream == Coalesce(options.stream, "stderr")
        optionsCopy == Spread(options)
        assigned ==
            IF optionsCopy.fields.style = None
            THEN [optionsCopy EXCEPT !.fields.style = autoStyle(options, isTTY)]
            ELSE optionsCopy
        printed == getPrintableCommand(name, argsValue, assigned.fields)
    IN  [result |-> IF printed.threw THEN printed ELSE [NoResult EXCEPT !.this = TRUE],
         written |-> IF printed.threw THEN writtenBefore
                     ELSE [writtenBefore EXCEPT
                              ![stream] = @ \o <<printed.text, <<"\n">>>>],
         callers |-> CallersObject(options, assigned)]

STDIN_SOURCE_KEYS == {"text", "json", "path", "stream"}

\* stdin(source): the error it fails with, or the new #stdinSource
stdin(source, sourceBefore) ==
    LET keys == source.keys
        moreKeys == IF keys = <<>> THEN <<>> ELSE Tail(keys)
    IN  IF Len(moreKeys) # 0 \/ keys = <<>> \/ Head(keys) \notin STDIN_SOURCE_KEYS
        THEN [result |-> [NoResult EXCEPT !.threw = TRUE, !.error = "AssertionError"],
              stdinSource |-> sourceBefore]
        ELSE [result |-> [NoResult EXCEPT !.this = TRUE],
              stdinSource |-> Some(source)]

\* The values of the stdio option: a string, or an array of strings
StdioString(value) == [kind |-> "string", slots |-> <<value>>]
StdioArray(slots) == [kind |-> "array", slots |-> slots]

\* A stdio with every slot a pipe
stdioWithStdin_AllPipe(stdio) == Some(StdioArray(<<"pipe", "pipe", "pipe">>))

\* The stdio that spawn puts in place when a stdin source is set
stdioWithStdin(stdio) ==
    LET defaulted == IF stdio = None THEN StdioString("pipe") ELSE stdio[1]
        filled == IF defaulted.kind = "string"
                  THEN StdioArray([i \in 1..3 |-> defaulted.slots[1]])
                  ELSE defaulted
    IN  Some(StdioArray(<<"pipe">> \o SubSeq(filled.slots, 2, Len(filled.slots))))

\* JSON.stringify of a string without characters to escape, of null and of
\* an array of these
RECURSIVE JSONstringify(_)
JSONstringify(value) ==
    IF value.t = "string" THEN <<"\"">> \o value.s \o <<"\"">>
    ELSE IF value.t = "array"
    THEN <<"[">> \o join([i \in DOMAIN value.items |-> JSONstringify(value.items[i])],
                          <<",">>)
              \o <<"]">>
    ELSE <<"n", "u", "l", "l">>

\* What spawn does to the stdin of the child for a stdin source: what it
\* writes, whether it ends the stream, what it pipes into it
StdinFeed(source) ==
    IF source = None
    THEN [written |-> <<>>, ended |-> FALSE, piped |-> "none"]
    ELSE IF Head(source[1].keys) = "text"
    THEN [written |-> <<source[1].text>>, ended |-> TRUE, piped |-> "none"]
    ELSE IF Head(source[1].keys) = "json"
    THEN [written |-> <<JSONstringify(source[1].json)>>, ended |-> TRUE, piped |-> "none"]
    ELSE [written |-> <<>>, ended |-> FALSE, piped |-> Head(source[1].keys)]

\* node:child_process spawn refuses an empty file name and an argument that
\* is not a string: the error's code, or "" when it spawns
NodeSpawnError(file, flatArgs) ==
    IF file = <<>> THEN "ERR_INVALID_ARG_VALUE"
    ELSE IF \E i \in DOMAIN flatArgs : ~isString(flatArgs[i]) THEN "ERR_INVALID_ARG_TYPE"
    ELSE ""

\* spawn(options): the result, the children and the caller's object after it
spawn(name, argsValue, source, options, childrenBefore) ==
    LET cwd == IF options.cwd = None THEN None
               ELSE Some(stringifyIfPath(options.cwd[1]).s)
        copy == Spread(options)
        assigned == IF source # None
                    THEN [copy EXCEPT !.fields.stdio = stdioWithStdin(copy.fields.stdio)]
                    ELSE copy
        commandAndArgs == toCommandWithFlatArgs(name, argsValue)
        child == [file |-> commandAndArgs.name.s,
                  args |-> commandAndArgs.flat,
                  stdio |-> assigned.fields.stdio,
                  cwd |-> cwd,
                  detached |-> assigned.fields.detached,
                  stdin |-> StdinFeed(source),
                  unref |-> FALSE]
        nodeError == NodeSpawnError(commandAndArgs.name.s, commandAndArgs.flat)
    IN  IF nodeError # ""
        THEN [result |-> [NoResult EXCEPT !.threw = TRUE, !.error = nodeError],
              children |-> childrenBefore,
              callers |-> CallersObject(options, assigned)]
        ELSE [result |-> NoResult,
              children |-> Append(childrenBefore, child),
              callers |-> CallersObject(options, assigned)]

\* A method that calls spawn with the object it built from the caller's:
\* what it returns to its own caller
spawnWith(name, argsValue, source, given, held, childrenBefore) ==
    LET inner == spawn(name, argsValue, source, held.fields, childrenBefore)
    IN  [inner EXCEPT !.callers = CallersObject(given, [held EXCEPT !.fields = inner.callers])]

\* The error for a field the method sets itself (the source puts the field's
\* name between grave accents)
UnexpectedField(field) ==
    [NoResult EXCEPT !.threw = TRUE,
                     !.error = IF field = "stdio" THEN "Unexpected stdio field."
                               ELSE "Unexpected detached field."]

\* spawnTransparently(options)
spawnTransparently(name, argsValue, source, options, childrenBefore) ==
    IF options.stdio # None
    THEN [result |-> UnexpectedField("stdio"), children |-> childrenBefore,
          callers |-> options]
    ELSE spawnWith(name, argsValue, source, options,
                   [Spread(options) EXCEPT !.fields.stdio = Some(StdioString("inherit"))],
                   childrenBefore)

\* A spawnDetached that looks for a stdio field only
spawnDetached_AllowsDetached(name, argsValue, source, options, childrenBefore) ==
    IF options.stdio # None
    THEN [result |-> UnexpectedField("stdio"), children |-> childrenBefore,
          callers |-> options]
    ELSE LET spawned ==
                 spawnWith(name, argsValue, source, options,
                           [Spread(options) EXCEPT
                               !.fields.stdio = Some(StdioString("ignore")),
                               !.fields.detached = Some(TRUE)],
                           childrenBefore)
             last == Len(spawned.children)
         IN  IF spawned.result.threw THEN spawned
             ELSE [spawned EXCEPT !.children[last].unref = TRUE]

\* spawnDetached(options)
spawnDetached(name, argsValue, source, options, childrenBefore) ==
    IF options.stdio # None
    THEN [result |-> UnexpectedField("stdio"), children |-> childrenBefore,
          callers |-> options]
    ELSE IF options.detached # None
    THEN [result |-> UnexpectedField("detached"), children |-> childrenBefore,
          callers |-> options]
    ELSE LET spawned ==
                 spawnWith(name, argsValue, source, options,
                           [Spread(options) EXCEPT
                               !.fields.stdio = Some(StdioString("ignore")),
                               !.fields.detached = Some(TRUE)],
                           childrenBefore)
             last == Len(spawned.children)
         IN  IF spawned.result.threw THEN spawned
             ELSE [spawned EXCEPT !.children[last].unref = TRUE]

\* The values of shellOut's print option
PrintFalse == [kind |-> "boolean", value |-> FALSE, mode |-> "", options |-> NoOptions]
PrintTrue == [kind |-> "boolean", value |-> TRUE, mode |-> "", options |-> NoOptions]
PrintMode(mode) == [kind |-> "string", value |-> TRUE, mode |-> mode, options |-> NoOptions]
PrintObject(options) == [kind |-> "object", value |-> TRUE, mode |-> "", options |-> options]

\* shellOut(options), up to its await, the isTTY of the stream it prints to
\* being isTTY: what it prints and what it spawns
shellOut(name, argsValue, source, options, isTTY, writtenBefore, childrenBefore) ==
    LET printOptions == options.print
        spawnOptions == [options EXCEPT !.print = None]
        printing == printOptions # None /\ printOptions[1] # PrintFalse
        assertFails ==
            /\ printing
            /\ printOptions[1].kind = "string"
            /\ printOptions[1].mode \notin ARGUMENT_LINE_WRAPPING_VALUES
        printGiven ==
            IF printOptions[1].kind = "string"
            THEN [NoOptions EXCEPT !.argumentLineWrapping = Some(printOptions[1].mode)]
            ELSE printOptions[1].options
        printed ==
            IF printing
            THEN print(name, argsValue, printGiven, isTTY, writtenBefore)
            ELSE [result |-> NoResult, written |-> writtenBefore, callers |-> NoOptions]
        callersAfterPrint ==
            IF printing /\ printOptions[1].kind = "object"
            THEN [options EXCEPT !.print = Some(PrintObject(printed.callers))]
            ELSE options
        spawned == spawnTransparently(name, argsValue, source, spawnOptions, childrenBefore)
    IN  IF assertFails
        THEN [result |-> [NoResult EXCEPT !.threw = TRUE, !.error = "AssertionError"],
              written |-> writtenBefore, children |-> childrenBefore, callers |-> options]
        ELSE IF printed.result.threw
        THEN [result |-> printed.result, written |-> writtenBefore,
              children |-> childrenBefore, callers |-> callersAfterPrint]
        ELSE [result |-> spawned.result, written |-> printed.written,
              children |-> spawned.children,
              callers |-> [callersAfterPrint EXCEPT
                              !.stdio = spawned.callers.stdio,
                              !.cwd = spawned.callers.cwd,
                              !.detached = spawned.callers.detached]]

----------------------------------------------------------------------------
(* A program that constructs one command, may set its stdin source, and *)
(* calls one of its methods with an options object                       *)

CallCommandNames == {Str(<<>>), Str(<<"l", "s">>), PathValue(<<"a", "=">>)}

CallArgs ==
    {Undefined,
     Arr(<<Str(<<"a">>)>>),
     Arr(<<Arr(<<PathValue(<<"a">>)>>)>>),
     Arr(<<Arr(<<Str(<<"-", "o">>), PathValue(<<"a", " ", "b">>)>>), Str(<<"'">>)>>)}

\* The modes, and a value that is none of them
CallLineWrappingValues == LineWrappingValues \cup {Some("by-line")}

StyleValues == {None, Some(<<"green">>), Some(<<"gray", "bold">>)}

GetPrintableCommandOptions ==
    [mainIndentation : MainIndentationValues, argIndentation : ArgIndentationValues,
     quoting : QuotingValues, argumentLineWrapping : CallLineWrappingValues,
     skipLineWrapBeforeFirstArg : SkipLineWrapValues,
     style : StyleValues, autoStyle : {None}, stream : {None}]

IsTTYValues == {None, Some(TRUE), Some(FALSE)}

PrintCallOptions ==
    [mainIndentation : {None}, argIndentation : {None}, quoting : {None},
     argumentLineWrapping : {None, Some("inline"), Some("by-line")},
     skipLineWrapBeforeFirstArg : {None},
     style : StyleValues,
     autoStyle : {None, Some("tty"), Some("never")},
     stream : {None, Some("stdout"), Some("file")}]

StdioValues ==
    {None, Some(StdioString("inherit")), Some(StdioArray(<<"ignore", "pipe", "pipe">>))}

SpawnCallOptions ==
    [stdio : StdioValues,
     cwd : {None, Some(Str(<<"d">>)), Some(PathValue(<<"d">>))},
     detached : {None, Some(FALSE)},
     print : {None}]

PrintValues ==
    {None, Some(PrintFalse), Some(PrintTrue), Some(PrintMode("inline")),
     Some(PrintMode("by-line")),
     Some(PrintObject([NoOptions EXCEPT !.stream = Some("stdout")]))}

ShellOutCallOptions ==
    [stdio : StdioValues,
     cwd : {None, Some(PathValue(<<"d">>))},
     detached : {None},
     print : PrintValues]

StdinSources ==
    {[keys |-> <<"text">>, text |-> <<"h", "i">>],
     [keys |-> <<"text", "json">>, text |-> <<"h", "i">>],
     [keys |-> <<"file">>, text |-> <<>>],
     [keys |-> <<>>, text |-> <<>>]}

InitCall ==
    /\ phase = "new"
    /\ commandName = Undefined
    /\ args = Undefined
    /\ call = NoCall
    /\ result = NoResult
    /\ NothingUsed

\* new PrintableShellCommand(commandName, args)
CallConstructor ==
    /\ phase = "new"
    /\ \E commandNameGiven \in CallCommandNames, argsGiven \in CallArgs :
          /\ ~constructor(commandNameGiven, argsGiven).threw
          /\ call' = [NoCall EXCEPT !.op = "constructor",
                                     !.commandName = commandNameGiven,
                                     !.args = argsGiven]
          /\ result' = constructor(commandNameGiven, argsGiven)
          /\ commandName' = commandNameGiven
          /\ args' = ArgsParameter(argsGiven)
    /\ phase' = "constructed"
    /\ UNCHANGED <<useVars, programVars, processVars>>

\* command.stdin(source)
CallStdin ==
    /\ phase = "constructed"
    /\ call.op = "constructor"
    /\ \E source \in StdinSources :
          LET outcome == stdin(source, stdinSource)
          IN  /\ call' = [NoCall EXCEPT !.op = "stdin", !.source = source]
              /\ result' = outcome.result
              /\ stdinSource' = outcome.stdinSource
    /\ UNCHANGED <<phase, commandName, args, callerOptions, written, children, programVars, processVars>>

\* command.getPrintableCommand(options)
CallGetPrintableCommand ==
    /\ phase = "constructed"
    /\ \E options \in GetPrintableCommandOptions :
          /\ call' = [NoCall EXCEPT !.op = "getPrintableCommand", !.options = options]
          /\ result' = getPrintableCommand(commandName, args, options)
          /\ callerOptions' = [callerOptions EXCEPT !.options = options]
    /\ phase' = "called"
    /\ UNCHANGED <<commandName, args, stdinSource, written, children, programVars, processVars>>

\* command.print(options)
CallPrint ==
    /\ phase = "constructed"
    /\ \E options \in PrintCallOptions, isTTY \in IsTTYValues :
          LET outcome == print(commandName, args, options, isTTY, written)
          IN  /\ call' = [NoCall EXCEPT !.op = "print", !.options = options,
                                         !.isTTY = isTTY]
              /\ result' = outcome.result
              /\ written' = outcome.written
              /\ callerOptions' = [callerOptions EXCEPT !.options = outcome.callers]
    /\ phase' = "called"
    /\ UNCHANGED <<commandName, args, stdinSource, children, programVars, processVars>>

\* command.spawn(options)
CallSpawn ==
    /\ phase = "constructed"
    /\ \E options \in SpawnCallOptions :
          LET outcome == spawn(commandName, args, stdinSource, options, children)
          IN  /\ call' = [NoCall EXCEPT !.op = "spawn", !.spawnOptions = options]
              /\ result' = outcome.result
              /\ children' = outcome.children
              /\ callerOptions' = [callerOptions EXCEPT !.spawnOptions = outcome.callers]
    /\ phase' = "called"
    /\ UNCHANGED <<commandName, args, stdinSource, written, programVars, processVars>>

\* command.spawnTransparently(options)
CallSpawnTransparently ==
    /\ phase = "constructed"
    /\ \E options \in SpawnCallOptions :
          LET outcome == spawnTransparently(commandName, args, stdinSource, options, children)
          IN  /\ call' = [NoCall EXCEPT !.op = "spawnTransparently",
                                         !.spawnOptions = options]
              /\ result' = outcome.result
              /\ children' = outcome.children
              /\ callerOptions' = [callerOptions EXCEPT !.spawnOptions = outcome.callers]
    /\ phase' = "called"
    /\ UNCHANGED <<commandName, args, stdinSource, written, programVars, processVars>>

\* command.spawnDetached(options)
CallSpawnDetached ==
    /\ phase = "constructed"
    /\ \E options \in SpawnCallOptions :
          LET outcome == spawnDetached(commandName, args, stdinSource, options, children)
          IN  /\ call' = [NoCall EXCEPT !.op = "spawnDetached", !.spawnOptions = options]
              /\ result' = outcome.result
              /\ children' = outcome.children
              /\ callerOptions' = [callerOptions EXCEPT !.spawnOptions = outcome.callers]
    /\ phase' = "called"
    /\ UNCHANGED <<commandName, args, stdinSource, written, programVars, processVars>>

\* command.shellOut(options), up to its await
CallShellOut ==
    /\ phase = "constructed"
    /\ \E options \in ShellOutCallOptions, isTTY \in IsTTYValues :
          LET outcome == shellOut(commandName, args, stdinSource, options, isTTY,
                                  written, children)
          IN  /\ call' = [NoCall EXCEPT !.op = "shellOut", !.spawnOptions = options,
                                         !.isTTY = isTTY]
              /\ result' = outcome.result
              /\ written' = outcome.written
              /\ children' = outcome.children
              /\ callerOptions' = [callerOptions EXCEPT !.spawnOptions = outcome.callers]
    /\ phase' = "called"
    /\ UNCHANGED <<commandName, args, stdinSource, programVars, processVars>>

NextCall ==
    \/ CallConstructor
    \/ CallStdin
    \/ CallGetPrintableCommand
    \/ CallPrint
    \/ CallSpawn
    \/ CallSpawnTransparently
    \/ CallSpawnDetached
    \/ CallShellOut

SpecCall == InitCall /\ [][NextCall]_vars

----------------------------------------------------------------------------
(* A program that constructs one command and then calls its methods in any *)
(* order, and writes to the array it passed as args                         *)

\* The most steps the program takes after the construction
MaxSteps == 3

LifeArgs ==
    {Undefined,
     Arr(<<Str(<<"a">>)>>),
     Arr(<<Arr(<<Str(<<"-", "o">>), PathValue(<<"a">>)>>)>>)}

LifeOptions ==
    {NoOptions,
     [NoOptions EXCEPT !.quoting = Some("extra-safe"),
                       !.argumentLineWrapping = Some("inline")]}

\* What the caller can do to its array: add a string, add a number, remove
\* the last element
ArrayWrites(items) ==
    {Append(items, Str(<<"b">>)), Append(items, Num)}
    \cup (IF items = <<>> THEN {} ELSE {SubSeq(items, 1, Len(items) - 1)})

InitLife ==
    /\ phase = "new"
    /\ commandName = Undefined
    /\ args = Undefined
    /\ call = NoCall
    /\ result = NoResult
    /\ NothingUsed

Step == [history EXCEPT !.steps = @ + 1]

\* const command = new PrintableShellCommand("ls", array): the args field is
\* the parameter itself, so it is the caller's array when one is passed
LifeConstruct ==
    /\ phase = "new"
    /\ \E argsGiven \in LifeArgs :
          /\ call' = [NoCall EXCEPT !.op = "constructor",
                                     !.commandName = Str(<<"l", "s">>),
                                     !.args = argsGiven]
          /\ result' = constructor(Str(<<"l", "s">>), argsGiven)
          /\ args' = ArgsParameter(argsGiven)
          /\ argsShared' = (argsGiven # Undefined)
    /\ commandName' = Str(<<"l", "s">>)
    /\ phase' = "constructed"
    /\ history' = [NoHistory EXCEPT !.texts = [options \in LifeOptions |-> None]]
    /\ UNCHANGED <<useVars, processVars>>

\* array.push(...), array.pop()
CallerWritesArgs ==
    /\ phase = "constructed"
    /\ history.steps < MaxSteps
    /\ argsShared
    /\ \E items \in ArrayWrites(args.items) : args' = Arr(items)
    /\ history' = [Step EXCEPT !.modified = TRUE]
    /\ UNCHANGED <<phase, commandName, call, result, argsShared, useVars, processVars>>

LifeToCommandWithFlatArgs ==
    /\ phase = "constructed"
    /\ history.steps < MaxSteps
    /\ call' = [NoCall EXCEPT !.op = "toCommandWithFlatArgs"]
    /\ result' = toCommandWithFlatArgs(commandName, args)
    /\ history' = [Step EXCEPT !.flat = IF @ = None THEN Some(result') ELSE @]
    /\ UNCHANGED <<phase, commandName, args, argsShared, useVars, processVars>>

LifeGetPrintableCommand ==
    /\ phase = "constructed"
    /\ history.steps < MaxSteps
    /\ \E options \in LifeOptions :
          /\ call' = [NoCall EXCEPT !.op = "getPrintableCommand", !.options = options]
          /\ result' = getPrintableCommand(commandName, args, options)
          /\ history' = [Step EXCEPT !.texts[options] = IF @ = None THEN Some(result') ELSE @]
          /\ callerOptions' = [callerOptions EXCEPT !.options = options]
    /\ UNCHANGED <<phase, commandName, args, argsShared, stdinSource, written, children,
                   processVars>>

LifePrint ==
    /\ phase = "constructed"
    /\ history.steps < MaxSteps
    /\ \E options \in LifeOptions :
          LET outcome == print(commandName, args, options, None, written)
          IN  /\ call' = [NoCall EXCEPT !.op = "print", !.options = options]
              /\ result' = outcome.result
              /\ written' = outcome.written
              /\ callerOptions' = [callerOptions EXCEPT !.options = outcome.callers]
    /\ history' = Step
    /\ UNCHANGED <<phase, commandName, args, argsShared, stdinSource, children, processVars>>

LifeStdin ==
    /\ phase = "constructed"
    /\ history.steps < MaxSteps
    /\ LET source == [keys |-> <<"text">>, text |-> <<"h", "i">>]
           outcome == stdin(source, stdinSource)
       IN  /\ call' = [NoCall EXCEPT !.op = "stdin", !.source = source]
           /\ result' = outcome.result
           /\ stdinSource' = outcome.stdinSource
    /\ history' = Step
    /\ UNCHANGED <<phase, commandName, args, argsShared, callerOptions, written, children,
                   processVars>>

LifeSpawn ==
    /\ phase = "constructed"
    /\ history.steps < MaxSteps
    /\ LET outcome == spawn(commandName, args, stdinSource, NoSpawnOptions, children)
       IN  /\ call' = [NoCall EXCEPT !.op = "spawn"]
           /\ result' = outcome.result
           /\ children' = outcome.children
           /\ callerOptions' = [callerOptions EXCEPT !.spawnOptions = outcome.callers]
    /\ history' = Step
    /\ UNCHANGED <<phase, commandName, args, argsShared, stdinSource, written, processVars>>

NextLife ==
    \/ LifeConstruct
    \/ CallerWritesArgs
    \/ LifeToCommandWithFlatArgs
    \/ LifeGetPrintableCommand
    \/ LifePrint
    \/ LifeStdin
    \/ LifeSpawn

SpecLife == InitLife /\ [][NextLife]_vars

----------------------------------------------------------------------------
(* A spawned process, the promises of its success getter and #generator *)

\* The notifications of a child process
ExitEvent(code) == [type |-> "exit", code |-> code, error |-> ""]
ErrorEvent(error) == [type |-> "error", code |-> None, error |-> error]

\* What a promise of the success getter is rejected with
ExitFailure(code) ==
    [message |-> "Command failed with non-zero exit code: ", code |-> code]
Failure(error) == [message |-> error, code |-> None]
NoReason == [message |-> "", code |-> None]

\* new Promise(...) in the success getter: pending, its two listeners added
\* after `registered` notifications
NewPromise(registered) ==
    [state |-> "pending", reason |-> NoReason, settles |-> 0, registered |-> registered]

\* The listeners of a promise, called with a notification: resolve() and
\* reject() do nothing to a promise that is settled
settle(promise, event) ==
    IF promise.state # "pending" THEN promise
    ELSE IF event.type = "exit" /\ event.code = Some(0)
    THEN [promise EXCEPT !.state = "fulfilled", !.settles = @ + 1]
    ELSE IF event.type = "exit"
    THEN [promise EXCEPT !.state = "rejected", !.reason = ExitFailure(event.code),
                         !.settles = @ + 1]
    ELSE [promise EXCEPT !.state = "rejected", !.reason = Failure(event.error),
                         !.settles = @ + 1]

\* A generator that ends when the stream ends, without awaiting the promise
generator_NotAwaiting(generating, output, promise, streamDestroyed) ==
    IF generating.pc = "reading" /\ generating.consumed < Len(output)
    THEN {[generating EXCEPT !.consumed = @ + 1,
                             !.delivered = Append(@, output[generating.consumed + 1])]}
    ELSE IF generating.pc = "reading"
    THEN {[generating EXCEPT !.pc = "ended"]}
    ELSE {}

\* #generator: the steps its body can take.  It yields the chunks of the
\* stream in order, then awaits the promise; a stream that was destroyed may
\* end or raise Premature close
generator(generating, output, promise, streamDestroyed) ==
    IF generating.pc = "reading" /\ generating.consumed < Len(output)
    THEN {[generating EXCEPT !.consumed = @ + 1,
                             !.delivered = Append(@, output[generating.consumed + 1])]}
    ELSE IF generating.pc = "reading"
    THEN {[generating EXCEPT !.pc = "awaiting"]}
         \cup (IF streamDestroyed
               THEN {[generating EXCEPT !.pc = "errored", !.error = Failure("Premature close")]}
               ELSE {})
    ELSE IF generating.pc = "awaiting" /\ promise.state = "fulfilled"
    THEN {[generating EXCEPT !.pc = "ended"]}
    ELSE IF generating.pc = "awaiting" /\ promise.state = "rejected"
    THEN {[generating EXCEPT !.pc = "errored", !.error = promise.reason]}
    ELSE {}

\* A #stdoutSpawnGenerator whose spawn has no stdin source
stdoutSpawnGenerator_WithoutSource(name, argsValue, source, options, childrenBefore) ==
    IF options.stdio # None
    THEN [result |-> UnexpectedField("stdio"), children |-> childrenBefore,
          callers |-> options]
    ELSE spawnWith(name, argsValue, None, options,
                   [Spread(options) EXCEPT
                       !.fields.stdio = Some(StdioArray(<<"ignore", "pipe", "inherit">>))],
                   childrenBefore)

\* #stdoutSpawnGenerator(options) and #stderrSpawnGenerator(options), up to
\* the call of #generator: the spawn
stdoutSpawnGenerator(name, argsValue, source, options, childrenBefore) ==
    IF options.stdio # None
    THEN [result |-> UnexpectedField("stdio"), children |-> childrenBefore,
          callers |-> options]
    ELSE spawnWith(name, argsValue, source, options,
                   [Spread(options) EXCEPT
                       !.fields.stdio = Some(StdioArray(<<"ignore", "pipe", "inherit">>))],
                   childrenBefore)

stderrSpawnGenerator(name, argsValue, source, options, childrenBefore) ==
    IF options.stdio # None
    THEN [result |-> UnexpectedField("stdio"), children |-> childrenBefore,
          callers |-> options]
    ELSE spawnWith(name, argsValue, source, options,
                   [Spread(options) EXCEPT
                       !.fields.stdio = Some(StdioArray(<<"ignore", "inherit", "pipe">>))],
                   childrenBefore)

----------------------------------------------------------------------------
(* A program that spawns one process from a command and waits for it *)

\* The most promises the program gets from the success getter
MaxPromises == 3

\* What a process can notify: an exit with code 0, with another code, by a
\* signal (code null); a failure to launch; a failed kill() before the exit
Fates ==
    {<<ExitEvent(Some(0))>>, <<ExitEvent(Some(1))>>, <<ExitEvent(None)>>,
     <<ErrorEvent("ENOENT")>>,
     <<ErrorEvent("EPERM"), ExitEvent(Some(0))>>,
     <<ErrorEvent("EPERM"), ExitEvent(Some(1))>>}

\* The chunks of the piped stream
Outputs == {<<>>, <<"a">>, <<"a", "b">>}

LaunchFailed(events) == events # <<>> /\ events[1] = ErrorEvent("ENOENT")

\* The methods whose body is #generator on the piped stream of a new process
GeneratorMethods == {"stdout", "stderr", "text", "json", "text0", "json0"}

InitSpawn ==
    /\ phase = "constructed"
    /\ commandName = Str(<<"l", "s">>)
    /\ args = Arr(<<>>)
    /\ call = [NoCall EXCEPT !.op = "constructor", !.commandName = Str(<<"l", "s">>)]
    /\ result = NoResult
    /\ NothingUsed

Process(fate, output) == [events |-> fate, notified |-> <<>>, output |-> output]

\* const subprocess = command.spawn({ stdio: ["ignore", "pipe", "pipe"] })
SpawnProcess ==
    /\ phase = "constructed"
    /\ \E fate \in Fates, output \in Outputs :
          /\ LaunchFailed(fate) => output = <<>>
          /\ subprocess' = Process(fate, output)
    /\ LET options == [NoSpawnOptions EXCEPT
                          !.stdio = Some(StdioArray(<<"ignore", "pipe", "pipe">>))]
           outcome == spawn(commandName, args, stdinSource, options, children)
       IN  /\ call' = [NoCall EXCEPT !.op = "spawn", !.spawnOptions = options]
           /\ result' = outcome.result
           /\ children' = outcome.children
           /\ callerOptions' = [callerOptions EXCEPT !.spawnOptions = outcome.callers]
    /\ phase' = "spawned"
    /\ UNCHANGED <<commandName, args, stdinSource, written, programVars, promises, body>>

\* command.stdout(), stderr(), text(), json(), text0(), json0(): the spawn,
\* the read of subprocess.success and the call of #generator
SpawnGenerator ==
    /\ phase = "constructed"
    /\ \E fate \in Fates, output \in Outputs :
          /\ LaunchFailed(fate) => output = <<>>
          /\ subprocess' = Process(fate, output)
    /\ \E method \in GeneratorMethods :
          LET outcome ==
                  IF method = "stderr"
                  THEN stderrSpawnGenerator(commandName, args, stdinSource,
                                            NoSpawnOptions, children)
                  ELSE stdoutSpawnGenerator(commandName, args, stdinSource,
                                            NoSpawnOptions, children)
          IN  /\ call' = [NoCall EXCEPT !.op = method]
              /\ result' = outcome.result
              /\ children' = outcome.children
              /\ callerOptions' = [callerOptions EXCEPT !.spawnOptions = outcome.callers]
              /\ body' = [NoBody EXCEPT !.via = method, !.promise = 1, !.pc = "reading"]
    /\ promises' = <<NewPromise(0)>>
    /\ phase' = "spawned"
    /\ UNCHANGED <<commandName, args, stdinSource, written, programVars>>

\* subprocess.success
ReadSuccess ==
    /\ phase = "spawned"
    /\ Len(promises) < MaxPromises
    /\ promises' = Append(promises, NewPromise(Len(subprocess.notified)))
    /\ UNCHANGED <<phase, commandName, args, call, result, useVars, programVars,
                   subprocess, body>>

\* subprocess.stdout.response(), .text(), .json(), .text0() on the process of
\* spawn(): the read of s.success and the call of #generator
Response ==
    /\ phase = "spawned"
    /\ call.op = "spawn"
    /\ body = NoBody
    /\ Len(promises) < MaxPromises
    /\ promises' = Append(promises, NewPromise(Len(subprocess.notified)))
    /\ body' = [NoBody EXCEPT !.via = "response", !.promise = Len(promises) + 1,
                              !.pc = "reading"]
    /\ UNCHANGED <<phase, commandName, args, call, result, useVars, programVars,
                   subprocess>>

\* The process emits 'exit' or 'error': every listener added so far is called
Notify ==
    /\ phase = "spawned"
    /\ subprocess.events # <<>>
    /\ LET event == Head(subprocess.events)
       IN  /\ subprocess' = [subprocess EXCEPT !.events = Tail(@),
                                                !.notified = Append(@, event)]
           /\ promises' = [i \in DOMAIN promises |-> settle(promises[i], event)]
    /\ UNCHANGED <<phase, commandName, args, call, result, useVars, programVars, body>>

\* The consumer takes the next step of the generator
GeneratorNext ==
    /\ phase = "spawned"
    /\ body.via # "none"
    /\ \E next \in generator(body, subprocess.output, promises[body.promise],
                             \E i \in DOMAIN subprocess.notified :
                                 subprocess.notified[i] = ErrorEvent("ENOENT")) :
          body' = next
    /\ UNCHANGED <<phase, commandName, args, call, result, useVars, programVars,
                   subprocess, promises>>

NextSpawn ==
    \/ SpawnProcess
    \/ SpawnGenerator
    \/ ReadSuccess
    \/ Response
    \/ Notify
    \/ GeneratorNext

SpecSpawn == InitSpawn /\ [][NextSpawn]_vars

----------------------------------------------------------------------------
(* #split0, text0 and json0: the records of a NUL-delimited stream *)

\* pending += chunk: a chunk of the stream is a Buffer, and the addition to a
\* string decodes the bytes of this chunk alone as UTF-8.  The bytes C3 A9
\* are one character; a byte that is not part of a complete sequence within
\* the chunk becomes the replacement character
RECURSIVE ChunkToString(_)
ChunkToString(bytes) ==
    IF bytes = <<>> THEN <<>>
    ELSE IF Head(bytes) = "C3" /\ Len(bytes) >= 2 /\ bytes[2] = "A9"
    THEN <<"U+00E9">> \o ChunkToString(Tail(Tail(bytes)))
    ELSE IF Head(bytes) \in {"C3", "A9"}
    THEN <<"U+FFFD">> \o ChunkToString(Tail(bytes))
    ELSE <<Head(bytes)>> \o ChunkToString(Tail(bytes))

\* String.prototype.split with a separator of one character
RECURSIVE split(_, _)
split(text, separator) ==
    IF text = <<>> THEN << <<>> >>
    ELSE LET rest == split(Tail(text), separator)
         IN  IF Head(text) = separator THEN << <<>> >> \o rest
             ELSE << <<Head(text)>> \o Head(rest) >> \o Tail(rest)

MissingTrailingNUL ==
    Failure("Missing a trailing NUL character at the end of a NUL-delimited stream.")

\* A #split0 that ends without looking at what is pending
split0_DropsTail(before, after) ==
    IF after.consumed > before.consumed
    THEN LET newChunks == split(before.pending
                                \o ChunkToString(after.delivered[after.consumed]), "NUL")
         IN  [after EXCEPT !.pending = newChunks[Len(newChunks)],
                           !.records = @ \o SubSeq(newChunks, 1, Len(newChunks) - 1)]
    ELSE IF after.pc = "ended"
    THEN [after EXCEPT !.outcome = "ended"]
    ELSE IF after.pc = "errored"
    THEN [after EXCEPT !.outcome = "errored", !.thrown = after.error]
    ELSE after

\* #split0, for one step of the generator it reads, from the body before the
\* step to the body after it: a chunk is added to what is pending, the parts
\* before the last NUL are yielded and the rest stays pending; at the end of
\* the generator something pending is an error; an error of the generator
\* passes through
split0(before, after) ==
    IF after.consumed > before.consumed
    THEN LET newChunks == split(before.pending
                                \o ChunkToString(after.delivered[after.consumed]), "NUL")
         IN  [after EXCEPT !.pending = newChunks[Len(newChunks)],
                           !.records = @ \o SubSeq(newChunks, 1, Len(newChunks) - 1)]
    ELSE IF after.pc = "ended"
    THEN IF before.pending # <<>>
         THEN [after EXCEPT !.outcome = "errored", !.thrown = MissingTrailingNUL]
         ELSE [after EXCEPT !.outcome = "ended"]
    ELSE IF after.pc = "errored"
    THEN [after EXCEPT !.outcome = "errored", !.thrown = after.error]
    ELSE after

\* JSON.parse of a record of these characters: a text of digits is a number,
\* an empty text and a text with another character is a SyntaxError
JSONparse(text) ==
    IF text # <<>> /\ \A i \in DOMAIN text : text[i] = "1"
    THEN [ok |-> TRUE, value |-> [t |-> "number", s |-> text, items |-> <<>>]]
    ELSE [ok |-> FALSE, value |-> Undefined]

\* The values of the first records that JSON.parse accepts
RECURSIVE ParsedRecords(_)
ParsedRecords(records) ==
    IF records = <<>> \/ ~JSONparse(Head(records)).ok THEN <<>>
    ELSE <<JSONparse(Head(records)).value>> \o ParsedRecords(Tail(records))

\* json0, around one step of #split0: each record that #split0 yields is
\* parsed and its value yielded; the first record that does not parse ends
\* json0 with the error of JSON.parse, and #split0 yields nothing after it
json0(before, after) ==
    LET yielded == SubSeq(after.records, Len(before.records) + 1, Len(after.records))
        parsed == ParsedRecords(yielded)
    IN  IF Len(parsed) < Len(yielded)
        THEN [after EXCEPT !.records = before.records \o SubSeq(yielded, 1, Len(parsed) + 1),
                           !.values = @ \o parsed,
                           !.outcome = "errored",
                           !.thrown = Failure("SyntaxError")]
        ELSE [after EXCEPT !.values = @ \o parsed]

----------------------------------------------------------------------------
(* A program that reads the NUL-delimited output of one process *)

\* The most bytes a process writes
MaxOutputLen == 3

\* The outputs of a number of bytes: texts in UTF-8 of the characters 1, NUL
\* and U+00E9 (the bytes C3 A9)
RECURSIVE OutputsOfLen(_)
OutputsOfLen(n) ==
    IF n = 0 THEN {<<>>}
    ELSE {<<byte>> \o rest : byte \in {"1", "NUL"}, rest \in OutputsOfLen(n - 1)}
         \cup (IF n >= 2 THEN {<<"C3", "A9">> \o rest : rest \in OutputsOfLen(n - 2)}
               ELSE {})

ProcessOutputs == UNION {OutputsOfLen(n) : n \in 0..MaxOutputLen}

\* Every way of cutting an output into chunks that are not empty
RECURSIVE Chunkings(_)
Chunkings(bytes) ==
    IF bytes = <<>> THEN {<<>>}
    ELSE UNION {{<<SubSeq(bytes, 1, k)>> \o rest :
                    rest \in Chunkings(SubSeq(bytes, k + 1, Len(bytes)))} :
                k \in 1..Len(bytes)}

\* What the process notifies: an exit with code 0, with code 1, by a signal
ExitFates == {<<ExitEvent(Some(0))>>, <<ExitEvent(Some(1))>>, <<ExitEvent(None)>>}

InitRecords ==
    /\ phase = "constructed"
    /\ commandName = Str(<<"l", "s">>)
    /\ args = Arr(<<>>)
    /\ call = [NoCall EXCEPT !.op = "constructor", !.commandName = Str(<<"l", "s">>)]
    /\ result = NoResult
    /\ NothingUsed

\* command.text0() or command.json0(), up to the first step of the body
SpawnRecords ==
    /\ phase = "constructed"
    /\ \E fate \in ExitFates, output \in ProcessOutputs :
          \E chunks \in Chunkings(output) :
              subprocess' = Process(fate, chunks)
    /\ \E method \in {"text0", "json0"} :
          LET outcome == stdoutSpawnGenerator(commandName, args, stdinSource,
                                              NoSpawnOptions, children)
          IN  /\ call' = [NoCall EXCEPT !.op = method]
              /\ result' = outcome.result
              /\ children' = outcome.children
              /\ callerOptions' = [callerOptions EXCEPT !.spawnOptions = outcome.callers]
              /\ body' = [NoBody EXCEPT !.via = method, !.promise = 1, !.pc = "reading",
                                        !.outcome = "running"]
    /\ promises' = <<NewPromise(0)>>
    /\ phase' = "spawned"
    /\ UNCHANGED <<commandName, args, stdinSource, written, programVars>>

\* The consumer of text0() or json0() takes the next step: #split0 takes the
\* next step of #generator
RecordsNext ==
    /\ phase = "spawned"
    /\ body.outcome = "running"
    /\ \E next \in generator(body, subprocess.output, promises[body.promise], FALSE) :
          body' = IF body.via = "json0" THEN json0(body, split0(body, next))
                  ELSE split0(body, next)
    /\ UNCHANGED <<phase, commandName, args, call, result, useVars, programVars,
                   subprocess, promises>>

NextRecords ==
    \/ SpawnRecords
    \/ Notify
    \/ RecordsNext

SpecRecords == InitRecords /\ [][NextRecords]_vars

----------------------------------------------------------------------------
(* A program that sets the stdin source of one command and spawns from it, *)
(* any number of times in any order                                         *)

UseStdinSources ==
    {[keys |-> <<"text">>, text |-> <<"h", "i">>, json |-> Undefined],
     [keys |-> <<"json">>, text |-> <<>>, json |-> Arr(<<Str(<<"h">>), Null>>)],
     [keys |-> <<"path">>, text |-> <<"f">>, json |-> Undefined],
     [keys |-> <<"text", "json">>, text |-> <<"h", "i">>, json |-> Null],
     [keys |-> <<"file">>, text |-> <<"f">>, json |-> Undefined]}

UseStdioValues ==
    {None, Some(StdioString("ignore")), Some(StdioString("inherit")),
     Some(StdioArray(<<"inherit", "pipe", "inherit">>)),
     Some(StdioArray(<<"ignore">>))}

UseSpawnOptions ==
    [stdio : UseStdioValues, cwd : {None}, detached : {None, Some(FALSE), Some(TRUE)},
     print : {None}]

UseShellOutOptions ==
    [stdio : {None, Some(StdioString("ignore"))}, cwd : {None}, detached : {None},
     print : {None, Some(PrintFalse), Some(PrintMode("inline"))}]

InitUse ==
    /\ phase = "constructed"
    /\ commandName = Str(<<"l", "s">>)
    /\ args = Arr(<<Str(<<"a">>)>>)
    /\ call = [NoCall EXCEPT !.op = "constructor", !.commandName = Str(<<"l", "s">>),
                             !.args = Arr(<<Str(<<"a">>)>>)]
    /\ result = NoResult
    /\ NothingUsed

\* command.stdin(source); the history keeps the source of the last call that
\* returned
UseStdin ==
    /\ phase = "constructed"
    /\ \E source \in UseStdinSources :
          LET outcome == stdin(source, stdinSource)
          IN  /\ call' = [NoCall EXCEPT !.op = "stdin", !.source = source]
              /\ result' = outcome.result
              /\ stdinSource' = outcome.stdinSource
              /\ history' = IF outcome.result.threw THEN history
                            ELSE [history EXCEPT !.source = Some(source)]
    /\ children' = <<>>
    /\ UNCHANGED <<phase, commandName, args, callerOptions, written, argsShared,
                   processVars>>

\* What a call that spawns leaves: children holds the children of this call
\* only, no method reads those of earlier calls
Used(op, options, outcome) ==
    /\ call' = [NoCall EXCEPT !.op = op, !.spawnOptions = options]
    /\ result' = outcome.result
    /\ children' = outcome.children
    /\ callerOptions' = [callerOptions EXCEPT !.spawnOptions = outcome.callers]
    /\ UNCHANGED <<phase, commandName, args, stdinSource, programVars, processVars>>

\* command.spawn(options)
UseSpawn ==
    /\ phase = "constructed"
    /\ \E options \in UseSpawnOptions :
          Used("spawn", options, spawn(commandName, args, stdinSource, options, <<>>))
    /\ UNCHANGED written

\* command.spawnTransparently(options)
UseSpawnTransparently ==
    /\ phase = "constructed"
    /\ \E options \in UseSpawnOptions :
          Used("spawnTransparently", options,
               spawnTransparently(commandName, args, stdinSource, options, <<>>))
    /\ UNCHANGED written

\* command.spawnDetached(options)
UseSpawnDetached ==
    /\ phase = "constructed"
    /\ \E options \in UseSpawnOptions :
          Used("spawnDetached", options,
               spawnDetached(commandName, args, stdinSource, options, <<>>))
    /\ UNCHANGED written

\* command.stdout(options), text(options), json(options), and text0(options),
\* json0(options) with the first step of their body: the spawn
UseStdout ==
    /\ phase = "constructed"
    /\ \E options \in UseSpawnOptions, method \in GeneratorMethods \ {"stderr"} :
          Used(method, options,
               stdoutSpawnGenerator(commandName, args, stdinSource, options, <<>>))
    /\ UNCHANGED written

\* command.stderr(options): the spawn
UseStderr ==
    /\ phase = "constructed"
    /\ \E options \in UseSpawnOptions :
          Used("stderr", options,
               stderrSpawnGenerator(commandName, args, stdinSource, options, <<>>))
    /\ UNCHANGED written

\* command.shellOut(options), up to its await
UseShellOut ==
    /\ phase = "constructed"
    /\ \E options \in UseShellOutOptions :
          LET outcome == shellOut(commandName, args, stdinSource, options, None,
                                  NothingWritten, <<>>)
          IN  /\ Used("shellOut", options, outcome)
              /\ written' = outcome.written

NextUse ==
    \/ UseStdin
    \/ UseSpawn
    \/ UseSpawnTransparently
    \/ UseSpawnDetached
    \/ UseStdout
    \/ UseStderr
    \/ UseShellOut

SpecUse == InitUse /\ [][NextUse]_vars

----------------------------------------------------------------------------
(* trimTrailingNewlines.ts: handleTrailingNewlines and its wrappers *)

DEFAULT_TRIM_TRAILING_NEWLINE_BEHAVIOUR == "never"

\* String.prototype.endsWith and slice(0, -1)
endsWith(text, character) == text # <<>> /\ text[Len(text)] = character
sliceWithoutLast(text) == SubSeq(text, 1, Len(text) - 1)

\* A promise that is settled: fulfilled with a text, or rejected
Fulfilled(text) == [state |-> "fulfilled", value |-> text, reason |-> ""]
Rejected(reason) == [state |-> "rejected", value |-> <<>>, reason |-> reason]

\* A handleTrailingNewlines that removes every final newline
RECURSIVE handleTrailingNewlines_TrimsAll(_, _)
handleTrailingNewlines_TrimsAll(text, options) ==
    IF text.state = "fulfilled" /\ endsWith(text.value, "\n")
          /\ options # None /\ options[1].trimTrailingNewlines = Some("single-if-present")
    THEN handleTrailingNewlines_TrimsAll(Fulfilled(sliceWithoutLast(text.value)), options)
    ELSE [NoResult EXCEPT !.text = text.value]

\* handleTrailingNewlines(text, options): what its promise settles with.  An
\* absent options object and an absent (or null) field give the default (the
\* source puts trimTrailingNewlines between grave accents in the last message)
handleTrailingNewlines(text, options) ==
    LET mode == IF options = None \/ options[1].trimTrailingNewlines = None
                THEN DEFAULT_TRIM_TRAILING_NEWLINE_BEHAVIOUR
                ELSE options[1].trimTrailingNewlines[1]
        awaitedText == text.value
    IN  IF text.state = "rejected"
        THEN [NoResult EXCEPT !.threw = TRUE, !.error = text.reason]
        ELSE IF mode = "single-required"
        THEN IF ~endsWith(awaitedText, "\n")
             THEN [NoResult EXCEPT !.threw = TRUE,
                                   !.error = "Trailing newline required, but not present."]
             ELSE [NoResult EXCEPT !.text = sliceWithoutLast(awaitedText)]
        ELSE IF mode = "single-if-present"
        THEN IF endsWith(awaitedText, "\n")
             THEN [NoResult EXCEPT !.text = sliceWithoutLast(awaitedText)]
             ELSE [NoResult EXCEPT !.text = awaitedText]
        ELSE IF mode = "never"
        THEN [NoResult EXCEPT !.text = awaitedText]
        ELSE [NoResult EXCEPT !.threw = TRUE,
                              !.error = "Invalid value for trimTrailingNewlines."]

\* wrapHandleTrailingNewlines(fn)(options), fn() being the promise text
wrapHandleTrailingNewlines(text, options) == handleTrailingNewlines(text, options)

----------------------------------------------------------------------------
(* The standalone use of handleTrailingNewlines and of a wrapped text() *)

\* The most characters of a text
MaxTextLen == 4

TrailingNewlineTexts ==
    {Fulfilled(text) : text \in StringsUpTo({"a", "\n"}, MaxTextLen)}
    \cup {Rejected("Command failed with non-zero exit code: 1")}

TrailingNewlineOptions ==
    {None} \cup
    {Some([trimTrailingNewlines |-> mode]) :
        mode \in {None, Some("never"), Some("single-if-present"),
                  Some("single-required"), Some("all")}}

InitTrim ==
    /\ phase = "trim"
    /\ commandName = Undefined
    /\ args = Undefined
    /\ call = NoCall
    /\ result = NoResult
    /\ NothingUsed

\* await handleTrailingNewlines(text, options)
HandleTrailingNewlinesCall ==
    /\ phase = "trim"
    /\ \E text \in TrailingNewlineTexts, options \in TrailingNewlineOptions :
          /\ call' = [NoCall EXCEPT !.op = "handleTrailingNewlines", !.text = Some(text),
                                     !.trailingNewlineOptions = options]
          /\ result' = handleTrailingNewlines(text, options)
    /\ phase' = "trimmed"
    /\ UNCHANGED <<commandName, args, useVars, programVars, processVars>>

\* await wrapHandleTrailingNewlinesForResponse(response).text(options), and
\* the same for wrapHandleTrailingNewlinesForText
WrappedTextCall ==
    /\ phase = "trim"
    /\ \E text \in TrailingNewlineTexts, options \in TrailingNewlineOptions :
          /\ call' = [NoCall EXCEPT !.op = "text", !.text = Some(text),
                                     !.trailingNewlineOptions = options]
          /\ result' = wrapHandleTrailingNewlines(text, options)
    /\ phase' = "trimmed"
    /\ UNCHANGED <<commandName, args, useVars, programVars, processVars>>

NextTrim ==
    \/ HandleTrailingNewlinesCall
    \/ WrappedTextCall

SpecTrim == InitTrim /\ [][NextTrim]_vars

----------------------------------------------------------------------------
(* Properties of escapeArg, checked under SpecEscape *)

IsSingleQuoted(text) ==
    /\ Len(text) >= 2
    /\ text[1] = "'"
    /\ text[Len(text)] = "'"

Contains(token, chars) == \E i \in DOMAIN token : token[i] \in chars

IsAutoQuoting(options) == options.quoting \in {None, Some("auto")}

\* The 20 special characters, as the documentation lists them
DocumentedSpecialCharacters ==
    {" ", "\"", "'", GraveAccent, "|", "$", "*", "?", ">", "<",
     "(", ")", "[", "]", "{", "}", "&", "\\", ";", "#"}

\* C2: under quoting auto (the default) an argument token is wrapped in single
\* quotes if and only if it contains one of the 20 special characters, and is
\* rendered unchanged otherwise; under extra-safe every token, the command
\* name included, is wrapped in single quotes.
C2_QuotingDecision ==
    phase = "escaped" =>
        LET special == Contains(call.token, DocumentedSpecialCharacters)
        IN  /\ (IsAutoQuoting(call.options) /\ ~call.isMainCommand) =>
                    /\ IsSingleQuoted(result.text) <=> special
                    /\ ~special => result.text = call.token
            /\ call.options.quoting = Some("extra-safe") => IsSingleQuoted(result.text)

C2_Witness ==
    /\ phase = "escaped"
    /\ ~call.isMainCommand
    /\ call.options.quoting = None
    /\ call.token = <<"a", "#">>
    /\ result.text = <<"'", "a", "#", "'">>

\* C3: the rule for "=" applies to the command name only: under quoting auto
\* the command name is single-quoted if and only if it contains a special
\* character or "=", and an argument token whose only non-plain character is
\* "=" is rendered unquoted.
C3_EqualsOnlyForCommandName ==
    (phase = "escaped" /\ IsAutoQuoting(call.options)) =>
        LET special == Contains(call.token, DocumentedSpecialCharacters)
            equals == Contains(call.token, {"="})
        IN  /\ call.isMainCommand => (IsSingleQuoted(result.text) <=> (special \/ equals))
            /\ (~call.isMainCommand /\ equals /\ ~special) => result.text = call.token

C3_Witness ==
    /\ phase = "escaped"
    /\ call.isMainCommand
    /\ call.options.quoting = Some("auto")
    /\ call.token = <<"a", "=">>
    /\ result.text = <<"'", "a", "=", "'">>

\* The quoted form of one character
QuotedCharacter(c) ==
    IF c = "\\" THEN <<"\\", "\\">>
    ELSE IF c = "'" THEN <<"\\", "'">>
    ELSE <<c>>

RECURSIVE QuotedCharacters(_)
QuotedCharacters(token) ==
    IF token = <<>> THEN <<>>
    ELSE QuotedCharacter(Head(token)) \o QuotedCharacters(Tail(token))

\* C4: whenever escapeArg quotes a token, the result is a single quote, then
\* the token with every backslash replaced by two backslashes and every single
\* quote by backslash + single quote (that backslash is not doubled, every
\* other character is copied in order), then a single quote.
C4_QuotingTransform ==
    (phase = "escaped" /\ result.text # call.token) =>
        result.text = <<"'">> \o QuotedCharacters(call.token) \o <<"'">>

C4_Witness ==
    /\ phase = "escaped"
    /\ call.token = <<"'", "\\">>
    /\ result.text = <<"'", "\\", "'", "\\", "\\", "'">>

----------------------------------------------------------------------------
(* Reading a printed command as a POSIX shell line *)

RECURSIVE RemoveContinuations(_)
RemoveContinuations(text) ==
    IF Len(text) < 2 THEN text
    ELSE IF text[1] = "\\" /\ text[2] = "\n"
    THEN RemoveContinuations(SubSeq(text, 3, Len(text)))
    ELSE <<text[1]>> \o RemoveContinuations(Tail(text))

Blanks == {" ", "\t", "\n"}

\* The fields of a shell line (POSIX Shell Command Language 2.2, 2.3): blanks
\* separate fields, a single quote keeps every character up to the next single
\* quote, a backslash outside quotes keeps the next character.  ok is FALSE for
\* an unterminated quote.
RECURSIVE PosixFields(_, _, _, _, _)
PosixFields(line, i, word, inWord, fields) ==
    IF i > Len(line)
    THEN [ok |-> TRUE, fields |-> IF inWord THEN Append(fields, word) ELSE fields]
    ELSE IF line[i] \in Blanks
    THEN PosixFields(line, i + 1, <<>>, FALSE,
                     IF inWord THEN Append(fields, word) ELSE fields)
    ELSE IF line[i] = "'"
    THEN LET closing == {j \in (i + 1)..Len(line) : line[j] = "'"}
         IN  IF closing = {} THEN [ok |-> FALSE, fields |-> fields]
             ELSE LET j == CHOOSE k \in closing : \A m \in closing : k <= m
                  IN  PosixFields(line, j + 1, word \o SubSeq(line, i + 1, j - 1),
                                  TRUE, fields)
    ELSE IF line[i] = "\\" /\ i < Len(line)
    THEN PosixFields(line, i + 2, Append(word, line[i + 1]), TRUE, fields)
    ELSE PosixFields(line, i + 1, Append(word, line[i]), TRUE, fields)

PosixParse(text) == PosixFields(RemoveContinuations(text), 1, <<>>, FALSE, <<>>)

\* A backslash and the character after it become that character
RECURSIVE WithoutEscapes(_)
WithoutEscapes(text) ==
    IF text = <<>> THEN <<>>
    ELSE IF Head(text) = "\\" /\ Len(text) >= 2
    THEN <<text[2]>> \o WithoutEscapes(SubSeq(text, 3, Len(text)))
    ELSE <<Head(text)>> \o WithoutEscapes(Tail(text))

\* The decoder of escaped texts: a text that starts with a single quote loses
\* its outer quotes and its escapes, another text is the token
DecodedArg(text) ==
    IF text # <<>> /\ text[1] = "'"
    THEN WithoutEscapes(SubSeq(text, 2, Len(text) - 1))
    ELSE text

\* C28: escapeArg is injective for a fixed isMainCommand and a fixed quoting
\* mode: an escaped text that starts with a single quote comes from the quoting
\* branch only, the decoder gives back the token from every escaped text, and
\* no other token has the same escaped text.
C28_EscapeArgInjective ==
    phase = "escaped" =>
        /\ (result.text # <<>> /\ result.text[1] = "'") =>
              /\ RequiresQuoting(call.token, call.isMainCommand, call.options)
              /\ IsSingleQuoted(result.text)
        /\ DecodedArg(result.text) = call.token
        /\ \A other \in StringsUpTo(TokenCharacters, 1) :
              other # call.token =>
                  escapeArg(other, call.isMainCommand, call.options) # result.text

C28_Witness ==
    /\ phase = "escaped"
    /\ call.token = <<"\\", "'">>
    /\ result.text = <<"'", "\\", "\\", "\\", "'", "'">>
    /\ DecodedArg(result.text) = call.token

----------------------------------------------------------------------------
(* Properties of the class, checked under Spec *)

Printed == phase = "called" /\ call.op = "getPrintableCommand" /\ ~result.threw

\* The argv of the command: the command name, then the flat arguments
Argv ==
    LET commandAndArgs == toCommandWithFlatArgs(commandName, args)
    IN  <<commandAndArgs.name.s>>
        \o [i \in DOMAIN commandAndArgs.flat |-> commandAndArgs.flat[i].s]

\* C1: for every valid command and both quoting modes, parsing the text of
\* getPrintableCommand() as a POSIX shell line, after removing
\* backslash-newline continuations, yields the command name followed by the
\* flat arguments of toCommandWithFlatArgs().
C1_RoundTrip ==
    Printed => PosixParse(result.text) = [ok |-> TRUE, fields |-> Argv]

\* The round trip of C1 does hold for some commands with a quoted token
C1_RoundTripHappens ==
    /\ Printed
    /\ PosixParse(result.text) = [ok |-> TRUE, fields |-> Argv]
    /\ Len(Argv) >= 3

\* The string a scalar stands for
StringOf(scalar) == Str(scalar.s)

\* The values of one entry: a scalar is itself, a group its members in order
EntryValues(entry) ==
    IF entry.t = "array"
    THEN [i \in DOMAIN entry.items |-> StringOf(entry.items[i])]
    ELSE <<StringOf(entry)>>

RECURSIVE ConcatenatedEntries(_)
ConcatenatedEntries(entries) ==
    IF entries = <<>> THEN <<>>
    ELSE EntryValues(Head(entries)) \o ConcatenatedEntries(Tail(entries))

\* C5: toCommandWithFlatArgs() returns the command name and the concatenation,
\* in construction order, of every entry's values, nothing added, dropped,
\* reordered or deduplicated; the same tokens given as ungrouped entries
\* return the same tail.
C5_FlatArgs ==
    (phase = "called" /\ call.op = "toCommandWithFlatArgs") =>
        LET tail == ConcatenatedEntries(args.items)
        IN  /\ result.name = StringOf(commandName)
            /\ result.flat = tail
            /\ toCommandWithFlatArgs(commandName, Arr(tail)).flat = result.flat

C5_Witness ==
    /\ phase = "called"
    /\ call.op = "toCommandWithFlatArgs"
    /\ commandName = PathValue(<<"a", "=">>)
    /\ args = Arr(<<Arr(<<PathValue(<<"a">>), Str(<<>>)>>), PathValue(<<"a">>)>>)
    /\ result.name = Str(<<"a", "=">>)
    /\ result.flat = <<Str(<<"a">>), Str(<<>>), Str(<<"a">>)>>

IsPrefix(prefix, text) ==
    /\ Len(prefix) <= Len(text)
    /\ SubSeq(text, 1, Len(prefix)) = prefix

\* text is the tokens in order and nothing else but separators: at least one
\* separator before each token, and any number of separators with no token
\* behind them
RECURSIVE TokensAmongSeparators(_, _, _)
TokensAmongSeparators(text, tokens, separators) ==
    \/ text = <<>> /\ tokens = <<>>
    \/ \E separator \in separators :
          /\ IsPrefix(separator, text)
          /\ LET rest == SubSeq(text, Len(separator) + 1, Len(text))
             IN  \/ /\ tokens # <<>>
                    /\ IsPrefix(Head(tokens), rest)
                    /\ TokensAmongSeparators(
                           SubSeq(rest, Len(Head(tokens)) + 1, Len(rest)),
                           Tail(tokens), separators)
                 \/ TokensAmongSeparators(rest, tokens, separators)

\* text is the tokens in order, each preceded by exactly one of the separators
RECURSIVE SeparatedTokens(_, _, _)
SeparatedTokens(text, tokens, separators) ==
    IF tokens = <<>> THEN text = <<>>
    ELSE \E separator \in separators :
            /\ IsPrefix(separator \o Head(tokens), text)
            /\ SeparatedTokens(
                   SubSeq(text, Len(separator) + Len(Head(tokens)) + 1, Len(text)),
                   Tail(tokens), separators)

SeparatorsOf(options) ==
    {INLINE_SEPARATOR, argPairSeparator(options), intraEntrySeparator(options)}

\* The escaped elements of the tail of toCommandWithFlatArgs()
EscapedTail(options) ==
    LET tail == toCommandWithFlatArgs(commandName, args).flat
    IN  [i \in DOMAIN tail |-> escapeArg(tail[i].s, FALSE, options)]

PrintedPrefix(options) ==
    mainIndentation(options) \o escapeArg(commandNameGetter(commandName).s, TRUE, options)

\* C6: the tokens that the text of getPrintableCommand() holds between its
\* separators are, in order, escapeArg(commandName, true) and then
\* escapeArg(t, false) for each element t of the tail of
\* toCommandWithFlatArgs(): one rendered token per element of the argv, and no
\* rendered token without one.
C6_PrintedTokensAreArgv ==
    Printed =>
        /\ IsPrefix(PrintedPrefix(call.options), result.text)
        /\ TokensAmongSeparators(
               SubSeq(result.text, Len(PrintedPrefix(call.options)) + 1, Len(result.text)),
               EscapedTail(call.options), SeparatorsOf(call.options))

C6_Witness ==
    /\ Printed
    /\ call.options.quoting = Some("extra-safe")
    /\ call.options.argumentLineWrapping = Some("inline")
    /\ call.options.mainIndentation = None
    /\ commandName = PathValue(<<"a", "=">>)
    /\ args = Arr(<<Arr(<<PathValue(<<"a">>), Str(<<>>), PathValue(<<"a">>)>>)>>)
    /\ result.text = <<"'", "a", "=", "'", " ", "'", "a", "'", " ", "'", "'", " ",
                       "'", "a", "'">>

\* Every separator of a command without an empty group has its token
C6_OneSeparatorPerToken ==
    (Printed /\ \A i \in DOMAIN args.items : args.items[i] # Arr(<<>>)) =>
        SeparatedTokens(
            SubSeq(result.text, Len(PrintedPrefix(call.options)) + 1, Len(result.text)),
            EscapedTail(call.options), SeparatorsOf(call.options))

\* The layout as documented: the indentation of arguments, the line wrap, and
\* the separators of each mode
LayoutMode(options) ==
    IF options.argumentLineWrapping = None THEN "by-entry"
    ELSE options.argumentLineWrapping[1]

LayoutMainIndent(options) ==
    IF options.mainIndentation = None THEN <<>> ELSE options.mainIndentation[1]

LayoutArgIndent(options) ==
    LayoutMainIndent(options)
    \o (IF options.argIndentation = None THEN <<" ", " ">> ELSE options.argIndentation[1])

LayoutWrap(options) == <<" ", "\\", "\n">> \o LayoutArgIndent(options)

LayoutGroupSeparator(options) ==
    CASE LayoutMode(options) \in {"by-entry", "inline"} -> <<" ">>
      [] LayoutMode(options) = "nested-by-entry" ->
            LayoutWrap(options) \o LayoutArgIndent(options)
      [] LayoutMode(options) = "by-argument" -> LayoutWrap(options)

LayoutEntrySeparator(options) ==
    IF LayoutMode(options) = "inline" THEN <<" ">> ELSE LayoutWrap(options)

\* The escaped tokens of one entry
EscapedTokens(entry, options) ==
    LET values == EntryValues(entry)
    IN  [i \in DOMAIN values |-> escapeArg(values[i].s, FALSE, options)]

RECURSIVE Joined(_, _)
Joined(strings, separator) ==
    IF Len(strings) = 0 THEN <<>>
    ELSE IF Len(strings) = 1 THEN strings[1]
    ELSE Joined(SubSeq(strings, 1, Len(strings) - 1), separator)
         \o separator \o strings[Len(strings)]

\* The entries laid out as documented
LayoutOfEntries(entries, options) ==
    Joined([i \in DOMAIN entries |->
               Joined(EscapedTokens(entries[i], options), LayoutGroupSeparator(options))],
           LayoutEntrySeparator(options))

EscapedCommandName(options) == escapeArg(StringOf(commandName).s, TRUE, options)

\* C7: getPrintableCommand() joins the members of a group with a single space
\* in by-entry and inline, with wrap + argIndent in nested-by-entry and with
\* wrap in by-argument, and joins the entries with wrap in by-entry,
\* nested-by-entry and by-argument and with a single space in inline, where
\* argIndent is mainIndentation (default empty) + argIndentation (default two
\* spaces) and wrap is space, backslash, newline, argIndent; the mode defaults
\* to by-entry and quoting to auto.
C7_LayoutSeparators ==
    Printed =>
        /\ result.text =
              mainIndentation(call.options)
              \o EscapedCommandName(call.options)
              \o separatorAfterCommand(call.options, Len(args.items))
              \o LayoutOfEntries(args.items, call.options)
        /\ call.options.argumentLineWrapping = None =>
              result.text =
                  getPrintableCommand(
                      commandName, args,
                      [call.options EXCEPT !.argumentLineWrapping = Some("by-entry")]).text
        /\ call.options.quoting = None =>
              result.text =
                  getPrintableCommand(
                      commandName, args,
                      [call.options EXCEPT !.quoting = Some("auto")]).text

C7_Witness ==
    /\ Printed
    /\ call.options.argumentLineWrapping = Some("nested-by-entry")
    /\ call.options.mainIndentation = Some(<<"\t">>)
    /\ call.options.argIndentation = None
    /\ call.options.quoting = None
    /\ call.options.skipLineWrapBeforeFirstArg = None
    /\ commandName = Str(<<"l", "s">>)
    /\ args = Arr(<<Arr(<<PathValue(<<"a">>), PathValue(<<"a">>)>>), PathValue(<<"a">>)>>)
    /\ result.text =
          <<"\t", "l", "s", " ", "\\", "\n", "\t", " ", " ", "a",
            " ", "\\", "\n", "\t", " ", " ", "\t", " ", " ", "a",
            " ", "\\", "\n", "\t", " ", " ", "a">>

\* The separator after the command name, as documented
LayoutSeparatorAfterCommand(options, entries) ==
    IF entries = 0 THEN <<>>
    ELSE IF options.skipLineWrapBeforeFirstArg = Some(TRUE) THEN <<" ">>
    ELSE LayoutEntrySeparator(options)

\* The entries as getPrintableCommand() serializes and joins them
SerializedEntries(options) ==
    join([i \in DOMAIN args.items |-> serializedEntry(args.items[i], options)],
         intraEntrySeparator(options))

\* C8: the separator after the command name is empty when the command has no
\* entries, a single space when skipLineWrapBeforeFirstArg is true (the later
\* separators unchanged), and otherwise the separator between entries; with no
\* entries the text is mainIndentation + the escaped command name.
C8_SeparatorAfterCommand ==
    Printed =>
        /\ result.text =
              LayoutMainIndent(call.options)
              \o EscapedCommandName(call.options)
              \o LayoutSeparatorAfterCommand(call.options, Len(args.items))
              \o SerializedEntries(call.options)
        /\ Len(args.items) = 0 =>
              result.text = LayoutMainIndent(call.options) \o EscapedCommandName(call.options)

C8_Witness ==
    /\ Printed
    /\ call.options.skipLineWrapBeforeFirstArg = Some(TRUE)
    /\ call.options.argumentLineWrapping = Some("by-argument")
    /\ call.options.mainIndentation = None
    /\ call.options.argIndentation = None
    /\ call.options.quoting = None
    /\ commandName = Str(<<"l", "s">>)
    /\ args = Arr(<<PathValue(<<"a">>), PathValue(<<"a">>)>>)
    /\ result.text = <<"l", "s", " ", "a", " ", "\\", "\n", " ", " ", "a">>

\* What the constructor accepts, as documented
IsScalar(v) == v.t \in {"string", "Path"}

IsEntry(v) ==
    \/ IsScalar(v)
    \/ (v.t = "array" /\ \A i \in DOMAIN v.items : IsScalar(v.items[i]))

InvalidEntryIndexes(entries) == {i \in 0..(Len(entries) - 1) : ~IsEntry(entries[i + 1])}

\* C10: the constructor throws, and produces no command, when commandName is
\* neither a string nor a Path, when args is not an array, or when an entry is
\* neither a string, a Path nor an array of strings and Paths, and then the
\* error names the smallest index of an invalid entry; a constructed command
\* never raises a validation error from getPrintableCommand() or
\* toCommandWithFlatArgs().
C10_ConstructionFailsFast ==
    /\ call.op = "constructor" =>
          LET nameValid == IsScalar(call.commandName)
              argsOmitted == call.args = Undefined
              argsValid == argsOmitted \/ call.args.t = "array"
              invalid == IF call.args.t = "array"
                         THEN InvalidEntryIndexes(call.args.items) ELSE {}
          IN  /\ phase = "threw" <=> (~nameValid \/ ~argsValid \/ invalid # {})
              /\ phase = "threw" =>
                    /\ result.threw
                    /\ commandName = Undefined
                    /\ args = Undefined
              /\ (nameValid /\ argsValid /\ invalid # {}) =>
                    /\ result.error = "Invalid arg entry at index: "
                    /\ result.index \in invalid
                    /\ \A i \in invalid : result.index <= i
              /\ phase = "constructed" =>
                    /\ ~result.threw
                    /\ commandName = call.commandName
                    /\ args = (IF argsOmitted THEN Arr(<<>>) ELSE call.args)
    /\ phase = "called" => ~result.threw

C10_Witness ==
    /\ phase = "threw"
    /\ call.op = "constructor"
    /\ call.commandName = PathValue(<<"a", "=">>)
    /\ call.args = Arr(<<PathValue(<<"a">>), Arr(<<Arr(<<>>)>>), Num>>)
    /\ result.error = "Invalid arg entry at index: "
    /\ result.index = 1

\* A group of fewer than two members
IsShortGroup(v) == v.t = "array" /\ Len(v.items) < 2

ShortGroupIndexes(entries) ==
    {i \in 0..(Len(entries) - 1) : IsShortGroup(entries[i + 1])}

ConstructorCallWithShortGroup ==
    /\ call.op = "constructor"
    /\ IsScalar(call.commandName)
    /\ call.args.t = "array"
    /\ ShortGroupIndexes(call.args.items) # {}

----------------------------------------------------------------------------
(* Properties of one call with an options object, checked under SpecCall *)

\* C12: every successfully constructed command has a non-empty command name.
C12_CommandNameNotEmpty ==
    phase \in {"constructed", "called"} => commandName.s # <<>>

Called(op) == phase = "called" /\ call.op = op

UnknownLineWrapping(options) ==
    /\ options.argumentLineWrapping # None
    /\ options.argumentLineWrapping[1] \notin
          {"by-entry", "nested-by-entry", "by-argument", "inline"}

\* C13: with an argumentLineWrapping value that is none of the four modes,
\* getPrintableCommand() throws for every command, also one with no entries,
\* one with only scalar entries and a call with skipLineWrapBeforeFirstArg
\* set, and returns no text.
C13_UnknownLineWrappingThrows ==
    (Called("getPrintableCommand") /\ UnknownLineWrapping(call.options)) =>
        /\ result.threw
        /\ result.error = "Invalid argument line wrapping argument."
        /\ result.text = <<>>

C13_Witness ==
    /\ Called("getPrintableCommand")
    /\ call.options.argumentLineWrapping = Some("by-line")
    /\ call.options.skipLineWrapBeforeFirstArg = Some(TRUE)
    /\ commandName = Str(<<"l", "s">>)
    /\ args = Arr(<<>>)
    /\ result.threw
    /\ result.error = "Invalid argument line wrapping argument."

\* The codes of a style, as the terminal receives them
OpeningCodes(style) == [i \in DOMAIN style |-> StyleCodes(style[i]).open]
ClosingCodes(style) ==
    [i \in DOMAIN style |-> StyleCodes(style[Len(style) + 1 - i]).close]

\* The text laid out as documented, without any style
LayoutOfCommand(options) ==
    LayoutMainIndent(options)
    \o EscapedCommandName(options)
    \o LayoutSeparatorAfterCommand(options, Len(args.items))
    \o LayoutOfEntries(args.items, options)

Unstyled(options) == [options EXCEPT !.style = None]

\* C14: getPrintableCommand() with a style returns the style's opening codes,
\* then exactly the text it returns for the same options without style, then
\* the style's closing codes; quoting, separators and indentation are those
\* of the unstyled text, and the call throws exactly when the unstyled call
\* throws.
C14_StyleWrapsFinishedText ==
    (Called("getPrintableCommand") /\ call.options.style # None) =>
        LET unstyled == getPrintableCommand(commandName, args, Unstyled(call.options))
        IN  /\ result.threw = unstyled.threw
            /\ ~result.threw =>
                  /\ unstyled.text = LayoutOfCommand(call.options)
                  /\ result.text =
                        OpeningCodes(call.options.style[1])
                        \o unstyled.text
                        \o ClosingCodes(call.options.style[1])

C14_Witness ==
    /\ Called("getPrintableCommand")
    /\ call.options.style = Some(<<"gray", "bold">>)
    /\ call.options.mainIndentation = Some(<<"\t">>)
    /\ call.options.argIndentation = None
    /\ call.options.quoting = None
    /\ call.options.argumentLineWrapping = None
    /\ call.options.skipLineWrapBeforeFirstArg = None
    /\ commandName = Str(<<"l", "s">>)
    /\ args = Arr(<<Str(<<"a">>)>>)
    /\ result.text = <<"ESC[90m", "ESC[1m", "\t", "l", "s", " ", "\\", "\n",
                       "\t", " ", " ", "a", "ESC[22m", "ESC[39m">>

\* The stream print() is to write to
PrintTarget(options) == IF options.stream = None THEN "stderr" ELSE options.stream[1]

AutoStyled(options, isTTY) ==
    /\ options.style = None
    /\ options.autoStyle # Some("never")
    /\ isTTY = Some(TRUE)

\* The text print() is to write
PrintText(options, isTTY) ==
    LET plain == getPrintableCommand(commandName, args, Unstyled(options)).text
    IN  IF options.style # None
        THEN OpeningCodes(options.style[1]) \o plain \o ClosingCodes(options.style[1])
        ELSE IF AutoStyled(options, isTTY)
        THEN <<"ESC[90m", "ESC[1m">> \o plain \o <<"ESC[22m", "ESC[39m">>
        ELSE plain

\* C15: print(options) writes exactly two chunks to the target stream, the
\* text of getPrintableCommand() and then a single newline, to stderr unless
\* options.stream is given, and returns the command; the text has the auto
\* style gray, bold exactly when no style is given, autoStyle is not never and
\* the target's isTTY is true; a given style is the one used, and a stream
\* that is not a TTY is never auto-styled.
C15_PrintWritesTextAndNewline ==
    (Called("print") /\ ~result.threw) =>
        /\ written = [NothingWritten EXCEPT
                         ![PrintTarget(call.options)] =
                             <<PrintText(call.options, call.isTTY), <<"\n">>>>]
        /\ result.this

C15_Witness ==
    /\ Called("print")
    /\ call.options.stream = Some("stdout")
    /\ call.options.style = None
    /\ call.options.autoStyle = Some("tty")
    /\ call.options.argumentLineWrapping = Some("inline")
    /\ call.isTTY = Some(TRUE)
    /\ commandName = Str(<<"l", "s">>)
    /\ args = Arr(<<Str(<<"a">>)>>)
    /\ written.stdout = << <<"ESC[90m", "ESC[1m", "l", "s", " ", "a", "ESC[22m", "ESC[39m">>,
                           <<"\n">> >>
    /\ written.stderr = <<>>

\* C16: after getPrintableCommand(o), print(o), spawn(o), spawnTransparently(o),
\* spawnDetached(o) or shellOut(o), every field of o has the value it had
\* before the call, also when the auto style or a stdin source makes the
\* method use other values.
C16_OptionsNotModified ==
    phase = "called" =>
        callerOptions = [options |-> call.options, spawnOptions |-> call.spawnOptions]

C16_Witness ==
    /\ Called("spawn")
    /\ stdinSource # None
    /\ call.spawnOptions.stdio = Some(StdioString("inherit"))
    /\ Len(children) = 1
    /\ children[1].stdio = Some(StdioArray(<<"pipe", "inherit", "inherit">>))
    /\ callerOptions.spawnOptions.stdio = Some(StdioString("inherit"))

\* The options shellOut() is to call print() with
ShellOutPrintOptions(printOptions) ==
    IF printOptions = None THEN NoOptions
    ELSE IF printOptions[1].kind = "string"
    THEN [NoOptions EXCEPT !.argumentLineWrapping = Some(printOptions[1].mode)]
    ELSE printOptions[1].options

\* C26: shellOut(options) is print, then spawnTransparently, then await
\* success: the command text and its newline are written, the process is
\* spawned with stdio inherit (slot 0 a pipe when a stdin source is set); with
\* print: false nothing is written to any stream; with print a wrapping mode
\* the command is printed with that argumentLineWrapping.
C26_ShellOutPrintsThenSpawns ==
    (Called("shellOut") /\ ~result.threw) =>
        LET printOptions == call.spawnOptions.print
            options == ShellOutPrintOptions(printOptions)
        IN  /\ written =
                  IF printOptions = Some(PrintFalse) THEN NothingWritten
                  ELSE [NothingWritten EXCEPT
                           ![PrintTarget(options)] =
                               <<PrintText(options, call.isTTY), <<"\n">>>>]
            /\ Len(children) = 1
            /\ children[1].stdio =
                  IF stdinSource = None THEN Some(StdioString("inherit"))
                  ELSE Some(StdioArray(<<"pipe", "inherit", "inherit">>))

----------------------------------------------------------------------------
(* Properties of a command in use, checked under SpecLife *)

\* What C17 says of the state after any step
SameAsFirstCall ==
    /\ call.op = "toCommandWithFlatArgs" => history.flat = Some(result)
    /\ call.op = "getPrintableCommand" => history.texts[call.options] = Some(result)
    /\ \A i \in DOMAIN args.items : IsEntry(args.items[i])

\* C17: a command is immutable once constructed: for any interleaving of calls
\* of getPrintableCommand, print, toCommandWithFlatArgs, stdin and spawn, and
\* any later write by the caller to the array it passed as args, every call of
\* toCommandWithFlatArgs() returns the same argv, every call of
\* getPrintableCommand(o) with the same o the same text, and the entries stay
\* valid.
C17_CommandImmutable ==
    phase = "constructed" => SameAsFirstCall

\* The calls of the command's own methods leave it as it is: C17 holds for as
\* long as the caller does not write to its array
C17_MethodsKeepCommand ==
    (phase = "constructed" /\ ~history.modified) => SameAsFirstCall

----------------------------------------------------------------------------
(* Properties of a spawned process, checked under SpecSpawn *)

Notified(event) ==
    \E i \in DOMAIN subprocess.notified : subprocess.notified[i] = event

\* Every notification of the process has been emitted
AllNotified == phase = "spawned" /\ subprocess.events = <<>>

\* The outcome a notification gives a promise
OutcomeOf(event) ==
    IF event.type = "error" THEN [state |-> "rejected", reason |-> Failure(event.error)]
    ELSE IF event.code = Some(0) THEN [state |-> "fulfilled", reason |-> NoReason]
    ELSE [state |-> "rejected", reason |-> ExitFailure(event.code)]

HasOutcome(promise, event) ==
    /\ promise.state = OutcomeOf(event).state
    /\ promise.reason = OutcomeOf(event).reason

\* The process only exits: no 'error' notification
OnlyExits == Len(subprocess.notified) = 1 /\ subprocess.notified[1].type = "exit"

\* C18: every promise obtained by reading .success, before or after the exit
\* notification and however many times, settles, and settles exactly once:
\* fulfilled if the exit code is 0, rejected for any other exit outcome.  As
\* a statement about the states with nothing left to be notified: every
\* promise is settled there, once, with the outcome of the exit.
C18_SuccessSettlesOnce ==
    \A i \in DOMAIN promises :
        /\ promises[i].settles <= 1
        /\ (AllNotified /\ OnlyExits) =>
              /\ promises[i].settles = 1
              /\ HasOutcome(promises[i], subprocess.notified[1])

\* C19: when the process cannot be started the .success promise is rejected
\* with the error of the 'error' notification and the body of text() and
\* stdout() fails instead of ending with empty output; when both an 'error'
\* and an 'exit' notification arrive, the promise keeps the outcome of the
\* first.
C19_LaunchFailureReported ==
    /\ (AllNotified /\ LaunchFailed(subprocess.notified)) =>
          /\ \A i \in DOMAIN promises :
                HasOutcome(promises[i], ErrorEvent("ENOENT"))
          /\ body.pc # "ended"
          /\ body.pc = "awaiting" => promises[body.promise].state = "rejected"
    /\ Len(subprocess.notified) = 2 =>
          \A i \in DOMAIN promises :
              promises[i].state # "pending" =>
                  HasOutcome(promises[i], subprocess.notified[1])

\* The process exits with a code that is not 0, or by a signal
FailedExit ==
    \E event \in {ExitEvent(Some(1)), ExitEvent(None)} :
        \/ Notified(event)
        \/ \E i \in DOMAIN subprocess.events : subprocess.events[i] = event

----------------------------------------------------------------------------
(* Properties of NUL-delimited reads, checked under SpecRecords *)

RECURSIVE Concatenated(_)
Concatenated(chunks) ==
    IF chunks = <<>> THEN <<>> ELSE Head(chunks) \o Concatenated(Tail(chunks))

\* The complete output of the process, as bytes and as text
OutputBytes == Concatenated(subprocess.output)
OutputText == ChunkToString(OutputBytes)

\* The records of a text that are terminated by NUL, without the terminators
RECURSIVE NulTerminatedRecords(_, _)
NulTerminatedRecords(text, record) ==
    IF text = <<>> THEN <<>>
    ELSE IF Head(text) = "NUL"
    THEN <<record>> \o NulTerminatedRecords(Tail(text), <<>>)
    ELSE NulTerminatedRecords(Tail(text), Append(record, Head(text)))

ExpectedRecords == NulTerminatedRecords(OutputText, <<>>)

Reading0 == body.outcome # "none"
Finished0 == body.outcome \in {"ended", "errored"}
SyntaxError == Failure("SyntaxError")

\* The output is not empty and does not end with NUL
Truncated == OutputBytes # <<>> /\ OutputBytes[Len(OutputBytes)] # "NUL"

\* C21: for every way of cutting the output into chunks, text0() yields, in
\* order, exactly the NUL-terminated records of the concatenated output
\* without their terminators, and json0() yields JSON.parse of each of them.
C21_RecordsIndependentOfChunking ==
    Reading0 =>
        /\ IsPrefix(body.records, ExpectedRecords)
        /\ body.outcome = "ended" => body.records = ExpectedRecords
        /\ (body.via = "json0" /\ body.outcome = "ended") =>
              body.values = ParsedRecords(ExpectedRecords)

FailedExitCode == IF <<ExitEvent(Some(1))>> = subprocess.events \o subprocess.notified
                  THEN Some(1) ELSE None

\* C27: when the process exits with a code that is not 0 and its output lacks
\* the trailing NUL, text0() and json0() report the exit failure and not the
\* missing NUL; the missing NUL is reported only for a process that exited
\* with code 0.
C27_ExitFailureBeforeMissingNUL ==
    (Reading0 /\ Finished0) =>
        /\ (FailedExit /\ Truncated) => body.thrown = ExitFailure(FailedExitCode)
        /\ body.thrown = MissingTrailingNUL => Notified(ExitEvent(Some(0)))

\* C27 as the code has it: the same, unless json0() has met a complete record
\* that is not JSON, which it reports before the process is awaited.
C27_ExitFailureBeforeMissingNULUnlessSyntaxError ==
    (Reading0 /\ Finished0) =>
        /\ (FailedExit /\ Truncated /\ body.thrown # SyntaxError) =>
              /\ body.thrown = ExitFailure(FailedExitCode)
              /\ body.consumed = Len(subprocess.output)
        /\ body.thrown = SyntaxError => body.via = "json0"
        /\ body.thrown = MissingTrailingNUL => Notified(ExitEvent(Some(0)))

C27_Witness ==
    /\ body.via = "json0"
    /\ body.outcome = "errored"
    /\ body.thrown = ExitFailure(Some(1))
    /\ body.values = <<[t |-> "number", s |-> <<"1">>, items |-> <<>>]>>
    /\ body.pending = <<"1">>

----------------------------------------------------------------------------
(* Properties of the stdin source and of the calls that spawn, checked under *)
(* SpecUse                                                                    *)

SpawningOps ==
    {"spawn", "spawnTransparently", "spawnDetached", "shellOut"} \cup GeneratorMethods

\* The last call has spawned a process
HasSpawned(ops) == call.op \in ops /\ ~result.threw /\ Len(children) = 1

\* The slots of the stdio the caller of spawn asked for
CallersSlots(stdio) ==
    IF stdio = None THEN <<"pipe", "pipe", "pipe">>
    ELSE IF stdio[1].kind = "string"
    THEN <<stdio[1].slots[1], stdio[1].slots[1], stdio[1].slots[1]>>
    ELSE stdio[1].slots

\* The child's stdin has been given the source and, for a text or a JSON
\* value, ended
FedWith(child, source) ==
    CASE source.keys = <<"text">> ->
            child.stdin = [written |-> <<source.text>>, ended |-> TRUE, piped |-> "none"]
      [] source = [keys |-> <<"json">>, text |-> <<>>,
                   json |-> Arr(<<Str(<<"h">>), Null>>)] ->
            child.stdin = [written |-> << <<"[", "\"", "h", "\"", ",", "n", "u", "l", "l", "]">> >>,
                           ended |-> TRUE, piped |-> "none"]
      [] OTHER -> child.stdin.piped = source.keys[1] /\ child.stdin.written = <<>>

\* A source object stdin() has to reject
RejectedSource(source) ==
    Len(source.keys) > 1 \/ \E i \in DOMAIN source.keys :
        source.keys[i] \notin {"text", "json", "path", "stream"}

\* C23: after any sequence of stdin() calls a spawn uses only the source set
\* last; it makes slot 0 of stdio a pipe and leaves slots 1 and 2 as the
\* caller gave them (a string stands for all three slots, no stdio for pipe);
\* a text or JSON source is written to the child's stdin, which is then ended;
\* a source with more than one key or an unknown key is rejected and the
\* source set before stays.
C23_LastSourceFeedsSpawn ==
    /\ stdinSource = history.source
    /\ call.op = "stdin" => (result.threw <=> RejectedSource(call.source))
    /\ (HasSpawned({"spawn"}) /\ history.source # None) =>
          /\ children[1].stdio
                = Some(StdioArray(<<"pipe">> \o Tail(CallersSlots(call.spawnOptions.stdio))))
          /\ FedWith(children[1], history.source[1])

C23_Witness ==
    /\ HasSpawned({"spawn"})
    /\ history.source # None
    /\ history.source[1].keys = <<"json">>
    /\ call.spawnOptions.stdio = Some(StdioArray(<<"inherit", "pipe", "inherit">>))
    /\ children[1].stdio = Some(StdioArray(<<"pipe", "pipe", "inherit">>))
    /\ children[1].stdin.ended

\* The stdio field is one a method refuses
HasField(field) == field # None

\* C24: spawnTransparently(), stdout() and stderr() with a stdio field in the
\* options, and spawnDetached() with a stdio or a detached field of any value,
\* throw Unexpected <field> field. and create no child process.
C24_ForbiddenFieldsRejected ==
    /\ (call.op \in {"spawnTransparently"} \cup GeneratorMethods
          /\ HasField(call.spawnOptions.stdio)) =>
          /\ result.threw
          /\ result.error = "Unexpected stdio field."
          /\ children = <<>>
    /\ (call.op = "spawnDetached"
          /\ (HasField(call.spawnOptions.stdio) \/ HasField(call.spawnOptions.detached))) =>
          /\ result.threw
          /\ result.error = IF HasField(call.spawnOptions.stdio)
                            THEN "Unexpected stdio field."
                            ELSE "Unexpected detached field."
          /\ children = <<>>

C24_Witness ==
    /\ call.op = "spawnDetached"
    /\ call.spawnOptions.stdio = None
    /\ call.spawnOptions.detached = Some(TRUE)
    /\ result.threw
    /\ result.error = "Unexpected detached field."
    /\ children = <<>>

\* C25: spawnDetached() spawns the process with detached set to true and
\* stdio set to "inherit", calls unref() on the child and returns without
\* waiting for the exit.
C25_DetachedInheritsStdio ==
    HasSpawned({"spawnDetached"}) =>
        /\ children[1].detached = Some(TRUE)
        /\ children[1].stdio = Some(StdioString("inherit"))
        /\ children[1].unref
        /\ promises = <<>>

\* C29: once stdin(source) has succeeded, only another stdin() call changes
\* the source: every later spawn(), stdout(), stderr(), text(), json(),
\* text0(), json0() and shellOut() makes slot 0 of stdio a pipe and feeds that
\* source to the new child, also when its own stdio says ignore or inherit.
C29_SourcePersists ==
    /\ stdinSource = history.source
    /\ (HasSpawned(SpawningOps) /\ history.source # None) =>
          /\ children[1].stdio # None
          /\ children[1].stdio[1].kind = "array"
          /\ children[1].stdio[1].slots[1] = "pipe"
          /\ FedWith(children[1], history.source[1])

C29_Witness ==
    /\ HasSpawned({"stdout"})
    /\ history.source # None
    /\ history.source[1].keys = <<"text">>
    /\ children[1].stdio = Some(StdioArray(<<"pipe", "pipe", "inherit">>))
    /\ children[1].stdin.written = << <<"h", "i">> >>

----------------------------------------------------------------------------
(* Properties of handleTrailingNewlines, checked under SpecTrim *)

\* The mode of the call, "" when none is given
TrimMode ==
    IF call.trailingNewlineOptions = None
          \/ call.trailingNewlineOptions[1].trimTrailingNewlines = None
    THEN ""
    ELSE call.trailingNewlineOptions[1].trimTrailingNewlines[1]

TrimInput == call.text[1].value

EndsWithNewline(text) == Len(text) >= 1 /\ text[Len(text)] = "\n"

\* text is other and one final newline
IsWithOneNewlineLess(text, other) == text = other \o <<"\n">>

\* C30: handleTrailingNewlines returns the text unchanged for mode never (the
\* default); for single-if-present it removes exactly one final newline if
\* the text ends with one and returns the text otherwise; for single-required
\* it removes exactly one final newline or fails with Trailing newline
\* required, but not present.; any other mode fails; the result is the input
\* or the input without its last character, never shorter.
C30_TrailingNewlines ==
    (phase = "trimmed" /\ call.text[1].state = "fulfilled") =>
        /\ TrimMode \in {"", "never"} => (~result.threw /\ result.text = TrimInput)
        /\ TrimMode = "single-if-present" =>
              /\ ~result.threw
              /\ IF EndsWithNewline(TrimInput)
                 THEN IsWithOneNewlineLess(TrimInput, result.text)
                 ELSE result.text = TrimInput
        /\ TrimMode = "single-required" =>
              IF EndsWithNewline(TrimInput)
              THEN ~result.threw /\ IsWithOneNewlineLess(TrimInput, result.text)
              ELSE /\ result.threw
                   /\ result.error = "Trailing newline required, but not present."
        /\ TrimMode \notin {"", "never", "single-if-present", "single-required"} =>
              result.threw
        /\ ~result.threw =>
              \/ result.text = TrimInput
              \/ /\ Len(result.text) = Len(TrimInput) - 1
                 /\ IsPrefix(result.text, TrimInput)

C30_Witness ==
    /\ phase = "trimmed"
    /\ TrimMode = "single-if-present"
    /\ TrimInput = <<"a", "\n", "\n">>
    /\ result.text = <<"a", "\n">>

\* C9: the text of getPrintableCommand() never ends with a newline.
C9_NoTrailingNewline ==
    Printed => (result.text = <<>> \/ result.text[Len(result.text)] # "\n")

====
